---- MODULE Spec2Model ----
(***************************************************************************)
(* Model of the document ingestion and context-retrieval pipeline:         *)
(*   supabase/functions/process-document/index.ts (ingest operation,       *)
(*   extractors, createTextChunks), the chat function (relevance           *)
(*   selection) and the upload component (document insert).                *)
(* Texts are sequences of one-character strings.                           *)
(***************************************************************************)
EXTENDS Integers, Sequences, FiniteSets, TLC

VARIABLES
    docs,       \* documents table: row d is the document with id d
    storage,    \* blob storage: entry p is the blob at file path p
    chunkRows,  \* document_chunks table, in insertion order
    inv,        \* the ingest invocations: request, locals and response of each
    messages,   \* messages table, ascending by created_at
    chat,       \* the chat invocation: request, locals and response
    conversations, \* conversations table: row c is the conversation with id c
    turn,       \* ChatInterface: props, state and locals of handleSubmit
    sel,        \* FileUpload: state and locals of handleFileSelect
    cText,      \* chunker run: the text argument
    cMax,       \* chunker run: the maxChunkSize argument
    cChunks,    \* chunker run: the returned array
    cPc         \* chunker run: "ready" | "done"

chunkVars == <<cText, cMax, cChunks, cPc>>
chatVars == <<messages, chat>>
clientVars == <<conversations, turn, sel>>

(***************************************************************************)
(* Bounds of the model.                                                    *)
(***************************************************************************)
MaxTextLen == 5
MaxChunkArg == 3
MaxDocs == 1
MaxInv == 2
MaxChatDocs == 7
MaxMessages == 11
EssayHalf == 600
MaxOverrun == 2

(***************************************************************************)
(* Constants of the program.                                               *)
(***************************************************************************)
ChunkSize == 1000

(***************************************************************************)
(* JavaScript string primitives.                                           *)
(***************************************************************************)
Whitespace == {" ", "\t", "\n"}
Terminators == {".", "!", "?"}
Alphabet == {"a", "b", " ", "\t", ".", "!"}

\* The elements of a finite set of integers in ascending order.
SortedSeq(S) ==
    [j \in 1..Cardinality(S) |-> CHOOSE x \in S : Cardinality({y \in S : y < x}) = j - 1]

\* String.prototype.trim
Trim(s) ==
    IF \A i \in 1..Len(s) : s[i] \in Whitespace THEN <<>>
    ELSE LET first == CHOOSE i \in 1..Len(s) :
                          s[i] \notin Whitespace /\ \A j \in 1..(i - 1) : s[j] \in Whitespace
             last  == CHOOSE i \in 1..Len(s) :
                          s[i] \notin Whitespace /\ \A j \in (i + 1)..Len(s) : s[j] \in Whitespace
         IN  SubSeq(s, first, last)

\* String.prototype.split with a separator that matches the maximal runs of
\* characters of Sep (the regular expressions /[.!?]+/ and /\s+/): k runs give
\* k + 1 pieces, the pieces before a leading run and after a trailing run
\* being empty; the empty string gives one empty piece.
SplitRuns(s, Sep) ==
    LET starts == {i \in 1..Len(s) : s[i] \in Sep /\ (i = 1 \/ s[i-1] \notin Sep)}
        ends   == {i \in 1..Len(s) : s[i] \in Sep /\ (i = Len(s) \/ s[i+1] \notin Sep)}
        st     == SortedSeq(starts)
        en     == SortedSeq(ends)
        k      == Len(st)
    IN  [j \in 1..(k + 1) |->
            SubSeq(s, IF j = 1 THEN 1 ELSE en[j-1] + 1,
                      IF j = k + 1 THEN Len(s) ELSE st[j] - 1)]

\* String.prototype.split with a one-character string separator: every
\* occurrence separates, so adjacent separators give empty pieces.
SplitChar(s, c) ==
    LET at == SortedSeq({i \in 1..Len(s) : s[i] = c})
        k  == Len(at)
    IN  [j \in 1..(k + 1) |->
            SubSeq(s, IF j = 1 THEN 1 ELSE at[j-1] + 1,
                      IF j = k + 1 THEN Len(s) ELSE at[j] - 1)]

(***************************************************************************)
(* createTextChunks                                                        *)
(***************************************************************************)
\* text.split(/[.!?]+/).filter(s => s.trim().length > 0)
Sentences(text) ==
    LET NonBlank(s) == Len(Trim(s)) > 0
    IN  SelectSeq(SplitRuns(text, Terminators), NonBlank)

\* The inner loop over the words of an oversized sentence. The result is
\* <<chunks, wordChunk>> after the last word.
RECURSIVE WordLoop(_, _, _, _, _)
WordLoop(words, k, chunks, wordChunk, maxChunkSize) ==
    IF k > Len(words) THEN <<chunks, wordChunk>>
    ELSE
        LET word    == words[k]
            flush   == Len(wordChunk) + Len(word) + 1 > maxChunkSize /\ wordChunk # <<>>
            chunks1 == IF flush THEN Append(chunks, Trim(wordChunk)) ELSE chunks
            wc1     == IF flush THEN <<>> ELSE wordChunk
            wc2     == wc1 \o (IF wc1 # <<>> THEN <<" ">> ELSE <<>>) \o word
        IN  WordLoop(words, k + 1, chunks1, wc2, maxChunkSize)

\* The loop over the sentences. The result is <<chunks, currentChunk>> after
\* the last sentence.
RECURSIVE SentenceLoop(_, _, _, _, _)
SentenceLoop(sentences, k, chunks, currentChunk, maxChunkSize) ==
    IF k > Len(sentences) THEN <<chunks, currentChunk>>
    ELSE
        LET trimmedSentence == Trim(sentences[k])
        IN  IF trimmedSentence = <<>>
            THEN SentenceLoop(sentences, k + 1, chunks, currentChunk, maxChunkSize)
            ELSE IF Len(currentChunk) + Len(trimmedSentence) + 1 > maxChunkSize
            THEN
                LET chunks1 == IF currentChunk # <<>>
                               THEN Append(chunks, Trim(currentChunk)) ELSE chunks
                IN  IF Len(trimmedSentence) > maxChunkSize
                    THEN
                        LET r == WordLoop(SplitChar(trimmedSentence, " "), 1,
                                          chunks1, <<>>, maxChunkSize)
                        IN  SentenceLoop(sentences, k + 1, r[1], r[2], maxChunkSize)
                    ELSE SentenceLoop(sentences, k + 1, chunks1, trimmedSentence,
                                      maxChunkSize)
            ELSE
                SentenceLoop(sentences, k + 1, chunks,
                    currentChunk \o (IF currentChunk # <<>> THEN <<".", " ">> ELSE <<>>)
                                 \o trimmedSentence,
                    maxChunkSize)

\* createTextChunks without the push of the trailing buffer.
createTextChunksNoFinalFlush(text, maxChunkSize) ==
    SentenceLoop(Sentences(text), 1, <<>>, <<>>, maxChunkSize)[1]

createTextChunks(text, maxChunkSize) ==
    LET r == SentenceLoop(Sentences(text), 1, <<>>, <<>>, maxChunkSize)
    IN  IF Trim(r[2]) # <<>> THEN Append(r[1], Trim(r[2])) ELSE r[1]

(***************************************************************************)
(* String literals of the program and of the files of the model.           *)
(***************************************************************************)
TextPlain ==
    <<"t","e","x","t","/","p","l","a","i","n">>

ApplicationPdf ==
    <<"a","p","p","l","i","c","a","t","i","o","n","/","p","d","f">>

DocxType ==
    <<"a","p","p","l","i","c","a","t","i","o","n","/","v","n","d",".","o","p","e","n","x","m",
      "l","f","o","r","m","a","t","s","-","o","f","f","i","c","e","d","o","c","u","m","e","n",
      "t",".","w","o","r","d","p","r","o","c","e","s","s","i","n","g","m","l",".","d","o","c",
      "u","m","e","n","t">>

PptxType ==
    <<"a","p","p","l","i","c","a","t","i","o","n","/","v","n","d",".","o","p","e","n","x","m",
      "l","f","o","r","m","a","t","s","-","o","f","f","i","c","e","d","o","c","u","m","e","n",
      "t",".","p","r","e","s","e","n","t","a","t","i","o","n","m","l",".","p","r","e","s","e",
      "n","t","a","t","i","o","n">>

ImagePrefix ==
    <<"i","m","a","g","e","/">>

ImagePng ==
    <<"i","m","a","g","e","/","p","n","g">>

ApplicationZip ==
    <<"a","p","p","l","i","c","a","t","i","o","n","/","z","i","p">>

\* what a template literal prints for undefined
UndefinedText ==
    <<"u","n","d","e","f","i","n","e","d">>

UnsupportedPrefix ==
    <<"U","n","s","u","p","p","o","r","t","e","d"," ","f","i","l","e"," ","t","y","p","e",":",
      " ">>

PdfNoText ==
    <<"N","o"," ","t","e","x","t"," ","c","o","n","t","e","n","t"," ","c","o","u","l","d"," ",
      "b","e"," ","e","x","t","r","a","c","t","e","d"," ","f","r","o","m"," ","t","h","i","s",
      " ","P","D","F",".">>

PdfFailedPrefix ==
    <<"P","D","F"," ","t","e","x","t"," ","e","x","t","r","a","c","t","i","o","n"," ","f","a",
      "i","l","e","d",":"," ">>

DocxNoText ==
    <<"N","o"," ","t","e","x","t"," ","c","o","n","t","e","n","t"," ","c","o","u","l","d"," ",
      "b","e"," ","e","x","t","r","a","c","t","e","d"," ","f","r","o","m"," ","t","h","i","s",
      " ","D","O","C","X"," ","f","i","l","e",".">>

DocxFailedPrefix ==
    <<"D","O","C","X"," ","t","e","x","t"," ","e","x","t","r","a","c","t","i","o","n"," ","f",
      "a","i","l","e","d",":"," ">>

PptxHead ==
    <<"P","o","w","e","r","P","o","i","n","t"," ","f","i","l","e",":"," ","P","P","T","X"," ",
      "(">>

PptxTail ==
    <<"K","B",")","\n","\n","P","P","T","X"," ","f","i","l","e","s"," ","c","o","n","t","a","i",
      "n"," ","r","i","c","h"," ","f","o","r","m","a","t","t","i","n","g"," ","a","n","d"," ",
      "m","u","l","t","i","m","e","d","i","a"," ","c","o","n","t","e","n","t"," ","t","h","a",
      "t"," ","r","e","q","u","i","r","e","s"," ","s","p","e","c","i","a","l","i","z","e","d",
      " ","p","r","o","c","e","s","s","i","n","g",".","\n","\n","F","o","r"," ","t","e","x","t",
      " ","e","x","t","r","a","c","t","i","o","n"," ","f","r","o","m"," ","P","o","w","e","r",
      "P","o","i","n","t"," ","f","i","l","e","s",","," ","p","l","e","a","s","e",":","\n","1",
      "."," ","S","a","v","e","/","e","x","p","o","r","t"," ","t","h","e"," ","p","r","e","s",
      "e","n","t","a","t","i","o","n"," ","a","s"," ","P","D","F"," ","f","r","o","m"," ","P",
      "o","w","e","r","P","o","i","n","t","\n","2","."," ","C","o","p","y"," ","a","n","d"," ",
      "p","a","s","t","e"," ","t","e","x","t"," ","c","o","n","t","e","n","t"," ","i","n","t",
      "o"," ","a"," ","t","e","x","t"," ","f","i","l","e","\n","3","."," ","U","s","e"," ","P",
      "o","w","e","r","P","o","i","n","t","'","s"," ","\"","S","a","v","e"," ","a","s"," ","T",
      "e","x","t","\""," ","o","p","t","i","o","n"," ","i","f"," ","a","v","a","i","l","a","b",
      "l","e","\n","\n","A","l","t","e","r","n","a","t","i","v","e","l","y",","," ","u","p","l",
      "o","a","d"," ","i","n","d","i","v","i","d","u","a","l"," ","s","l","i","d","e","s"," ",
      "a","s"," ","i","m","a","g","e","s"," ","f","o","r"," ","O","C","R"," ","p","r","o","c",
      "e","s","s","i","n","g",".">>

ImageHead ==
    <<"I","m","a","g","e"," ","f","i","l","e",":"," ">>

ImageTail ==
    <<"K","B",")","\n","\n","T","h","i","s"," ","i","s"," ","a","n"," ","i","m","a","g","e"," ",
      "f","i","l","e","."," ","F","o","r"," ","t","e","x","t"," ","e","x","t","r","a","c","t",
      "i","o","n"," ","f","r","o","m"," ","i","m","a","g","e","s",","," ","c","o","n","s","i",
      "d","e","r",":","\n","1","."," ","U","s","i","n","g"," ","O","C","R"," ","t","o","o","l",
      "s"," ","l","i","k","e"," ","G","o","o","g","l","e"," ","V","i","s","i","o","n"," ","A",
      "P","I","\n","2","."," ","C","o","n","v","e","r","t","i","n","g"," ","t","h","e"," ","i",
      "m","a","g","e"," ","t","o"," ","P","D","F"," ","w","i","t","h"," ","e","m","b","e","d",
      "d","e","d"," ","t","e","x","t","\n","3","."," ","M","a","n","u","a","l","l","y"," ","t",
      "r","a","n","s","c","r","i","b","i","n","g"," ","i","m","p","o","r","t","a","n","t"," ",
      "t","e","x","t"," ","c","o","n","t","e","n","t","\n","\n","I","f"," ","t","h","i","s"," ",
      "i","m","a","g","e"," ","c","o","n","t","a","i","n","s"," ","c","h","a","r","t","s",",",
      " ","d","i","a","g","r","a","m","s",","," ","o","r"," ","h","a","n","d","w","r","i","t",
      "t","e","n"," ","t","e","x","t",","," ","p","l","e","a","s","e"," ","p","r","o","v","i",
      "d","e"," ","a"," ","t","e","x","t"," ","d","e","s","c","r","i","p","t","i","o","n"," ",
      "o","f"," ","t","h","e"," ","c","o","n","t","e","n","t",".">>

InvalidPdfMessage ==
    <<"I","n","v","a","l","i","d"," ","P","D","F"," ","s","t","r","u","c","t","u","r","e",".">>

NotesName ==
    <<"n","o","t","e","s",".","t","x","t">>

EssayName ==
    <<"e","s","s","a","y",".","t","x","t">>

PaperName ==
    <<"p","a","p","e","r",".","p","d","f">>

ArchiveName ==
    <<"a","r","c","h","i","v","e",".","z","i","p">>

SlidesName ==
    <<"s","l","i","d","e","s",".","p","p","t","x">>

PhotoName ==
    <<"p","h","o","t","o",".","p","n","g">>

ReportName ==
    <<"r","e","p","o","r","t",".","d","o","c","x">>

NotesData ==
    <<"C","e","l","l","s"," ","d","i","v","i","d","e","."," "," ","P","l","a","n","t","s","\t",
      "g","r","o","w","!">>

ReportValue ==
    <<" "," ","M","i","t","o","s","i","s"," ","h","a","s"," ","p","h","a","s","e","s","."," ",
      "\n">>

NotZipMessage ==
    <<"C","a","n","'","t"," ","f","i","n","d"," ","e","n","d"," ","o","f"," ","c","e","n","t",
      "r","a","l"," ","d","i","r","e","c","t","o","r","y"," ",":"," ","i","s"," ","t","h","i",
      "s"," ","a"," ","z","i","p"," ","f","i","l","e"," ","?">>

UserLabel ==
    <<"U","s","e","r">>

AssistantLabel ==
    <<"A","s","s","i","s","t","a","n","t">>

DocumentLabel ==
    <<"D","o","c","u","m","e","n","t",":"," ">>

ContentLabel ==
    <<"\n","C","o","n","t","e","n","t",":"," ">>

Ellipsis ==
    <<".",".",".">>

DocumentSeparator ==
    <<"\n","\n","-","-","-","\n","\n">>

LeafText ==
    <<"P","l","a","n","t","s"," ","u","s","e"," ","P","h","o","t","o","s","y","n","t","h","e",
      "s","i","s",".">>

RockText ==
    <<"T","h","e"," ","R","O","C","K"," ","r","e","c","o","r","d",".">>

LeafTitle ==
    <<"l","e","a","f",".","t","x","t">>

QuestionScenarioC ==
    <<"w","h","a","t"," ","i","s"," ","p","h","o","t","o","s","y","n","t","h","e","s","i","s">>

QuestionTwoLines ==
    <<"e","x","p","l","a","i","n","\n","p","h","o","t","o","s","y","n","t","h","e","s","i","s">>

QuestionShortWords ==
    <<"i","s"," ","i","t"," ","s","o">>

QuestionRock ==
    <<"R","o","c","k"," "," ","c","y","c","l","e">>

UpperCase ==
    <<"A","B","C","D","E","F","G","H","I","J","K","L","M","N","O","P","Q","R","S","T","U","V",
      "W","X","Y","Z">>

LowerCase ==
    <<"a","b","c","d","e","f","g","h","i","j","k","l","m","n","o","p","q","r","s","t","u","v",
      "w","x","y","z">>

PrivateMark ==
    <<"P","r","i","v","a","t","e","."," ">>

PrivateQuestion ==
    <<"m","y"," ","p","r","i","v","a","t","e"," ","q","u","e","s","t","i","o","n">>

EarlierQuestion ==
    <<"h","e","l","l","o">>

EarlierAnswer ==
    <<"H","i"," ","t","h","e","r","e">>

AnswerText ==
    <<"A","n"," ","a","n","s","w","e","r",".">>


(***************************************************************************)
(* Values of the JavaScript runtime that are not strings. A text is a      *)
(* sequence of one-character strings, so neither value is a text.          *)
(***************************************************************************)
Null == <<"null">>
Undefined == <<"undefined">>

\* String.prototype.startsWith
StartsWith(s, prefix) ==
    Len(s) >= Len(prefix) /\ SubSeq(s, 1, Len(prefix)) = prefix

\* Number to decimal string, as a template literal prints it.
Digits == <<"0", "1", "2", "3", "4", "5", "6", "7", "8", "9">>
RECURSIVE Decimal(_)
Decimal(n) ==
    IF n < 10 THEN <<Digits[n + 1]>> ELSE Decimal(n \div 10) \o <<Digits[(n % 10) + 1]>>

\* What a template literal prints for a string or for undefined.
TemplateText(v) == IF v = Undefined THEN UndefinedText ELSE v

\* Array.prototype.join
RECURSIVE Join(_, _)
Join(parts, sep) ==
    IF parts = <<>> THEN <<>>
    ELSE IF Len(parts) = 1 THEN parts[1]
    ELSE parts[1] \o sep \o Join(Tail(parts), sep)

\* The string of n copies of the character c.
Repeat(c, n) == [i \in 1..n |-> c]

(***************************************************************************)
(* Format extractors. A blob is a record                                   *)
(*   [name, type, size, data, pdf, docx]:                                  *)
(* data is what Blob.text() decodes; pdf and docx are what the parser      *)
(* libraries (pdfjs getDocument, mammoth extractRawText) make of the       *)
(* bytes: [ok |-> TRUE, pages] (pages of text items), [ok |-> TRUE, value] *)
(* (the raw text), or [ok |-> FALSE, message] (an exception).              *)
(***************************************************************************)
BytesPerKB == 1024
\* Math.round(fileSize / 1024)
FileSizeKB(fileData) == (2 * fileData.size + BytesPerKB) \div (2 * BytesPerKB)

\* textContent.items.filter(item => item.str && item.str.trim()).map(item => item.str).join(' ')
PageText(items) ==
    LET Shown(str) == str # <<>> /\ Trim(str) # <<>>
    IN  Join(SelectSeq(items, Shown), <<" ">>)

RECURSIVE PdfFullText(_, _)
PdfFullText(pages, i) ==
    IF i > Len(pages) THEN <<>>
    ELSE PageText(pages[i]) \o <<"\n", "\n">> \o PdfFullText(pages, i + 1)

extractPdfText(fileData) ==
    IF fileData.pdf.ok
    THEN LET fullText == Trim(PdfFullText(fileData.pdf.pages, 1))
         IN  IF fullText # <<>> THEN fullText ELSE PdfNoText
    ELSE PdfFailedPrefix \o fileData.pdf.message

extractDocxText(fileData) ==
    IF fileData.docx.ok
    THEN LET value == Trim(fileData.docx.value)
         IN  IF value # <<>> THEN value ELSE DocxNoText
    ELSE DocxFailedPrefix \o fileData.docx.message

extractPptxText(fileData) ==
    PptxHead \o Decimal(FileSizeKB(fileData)) \o PptxTail

extractImageText(fileData, fileName) ==
    ImageHead \o TemplateText(fileName) \o <<" ", "(">>
              \o Decimal(FileSizeKB(fileData)) \o ImageTail

\* The TypeError of calling a method of undefined.
StartsWithOfUndefined == "Cannot read properties of undefined (reading 'startsWith')"

\* The dispatch with extractors that let a parser exception through.
ExtractTextRethrows(fileType, fileName, fileData) ==
    IF fileType = TextPlain THEN [ok |-> TRUE, text |-> fileData.data]
    ELSE IF fileType = ApplicationPdf
         THEN IF fileData.pdf.ok THEN [ok |-> TRUE, text |-> extractPdfText(fileData)]
              ELSE [ok |-> FALSE, message |-> "Invalid PDF structure."]
    ELSE IF fileType = DocxType
         THEN IF fileData.docx.ok THEN [ok |-> TRUE, text |-> extractDocxText(fileData)]
              ELSE [ok |-> FALSE, message |-> "Can't find end of central directory"]
    ELSE IF fileType = PptxType THEN [ok |-> TRUE, text |-> extractPptxText(fileData)]
    ELSE IF fileType = Undefined THEN [ok |-> FALSE, message |-> StartsWithOfUndefined]
    ELSE IF StartsWith(fileType, ImagePrefix)
         THEN [ok |-> TRUE, text |-> extractImageText(fileData, fileName)]
    ELSE [ok |-> TRUE, text |-> UnsupportedPrefix \o fileType]

\* The extractor dispatch of the handler: [ok |-> TRUE, text] when the
\* dispatch yields extractedText, [ok |-> FALSE, message] when it throws.
ExtractText(fileType, fileName, fileData) ==
    IF fileType = TextPlain THEN [ok |-> TRUE, text |-> fileData.data]
    ELSE IF fileType = ApplicationPdf THEN [ok |-> TRUE, text |-> extractPdfText(fileData)]
    ELSE IF fileType = DocxType THEN [ok |-> TRUE, text |-> extractDocxText(fileData)]
    ELSE IF fileType = PptxType THEN [ok |-> TRUE, text |-> extractPptxText(fileData)]
    ELSE IF fileType = Undefined THEN [ok |-> FALSE, message |-> StartsWithOfUndefined]
    ELSE IF StartsWith(fileType, ImagePrefix)
         THEN [ok |-> TRUE, text |-> extractImageText(fileData, fileName)]
    ELSE [ok |-> TRUE, text |-> UnsupportedPrefix \o fileType]

(***************************************************************************)
(* The files a user uploads.                                               *)
(***************************************************************************)
NoPdf == [ok |-> FALSE, message |-> InvalidPdfMessage]
NoDocx == [ok |-> FALSE, message |-> NotZipMessage]

NotesFile ==
    [name |-> NotesName, type |-> TextPlain, size |-> Len(NotesData), data |-> NotesData,
     pdf |-> NoPdf, docx |-> NoDocx]
EssayData == Repeat("a", EssayHalf) \o <<".", " ">> \o Repeat("b", EssayHalf)
EssayFile ==
    [name |-> EssayName, type |-> TextPlain, size |-> Len(EssayData), data |-> EssayData,
     pdf |-> NoPdf, docx |-> NoDocx]
BrokenPaperFile ==
    [name |-> PaperName, type |-> ApplicationPdf, size |-> 2048, data |-> <<>>,
     pdf |-> NoPdf, docx |-> NoDocx]
\* A PDF of two pages; the second page has only an empty and a blank item.
PaperFile ==
    [name |-> PaperName, type |-> ApplicationPdf, size |-> 1536, data |-> <<>>,
     pdf |-> [ok |-> TRUE,
              pages |-> << << <<"L","e","a","f">>, <<>>, <<" ">>, <<"c","e","l","l","s",".">> >>,
                           << <<>>, <<"\t">> >> >>],
     docx |-> NoDocx]
\* A PDF without extractable text.
ScannedPaperFile ==
    [name |-> PaperName, type |-> ApplicationPdf, size |-> 4096, data |-> <<>>,
     pdf |-> [ok |-> TRUE, pages |-> << <<>> >>], docx |-> NoDocx]
ReportFile ==
    [name |-> ReportName, type |-> DocxType, size |-> 3000, data |-> <<>>,
     pdf |-> NoPdf, docx |-> [ok |-> TRUE, value |-> ReportValue]]
BrokenReportFile ==
    [name |-> ReportName, type |-> DocxType, size |-> 10, data |-> <<>>,
     pdf |-> NoPdf, docx |-> NoDocx]
SlidesFile ==
    [name |-> SlidesName, type |-> PptxType, size |-> 20000, data |-> <<>>,
     pdf |-> NoPdf, docx |-> NoDocx]
PhotoFile ==
    [name |-> PhotoName, type |-> ImagePng, size |-> 511, data |-> <<>>,
     pdf |-> NoPdf, docx |-> NoDocx]
ArchiveFile ==
    [name |-> ArchiveName, type |-> ApplicationZip, size |-> 700, data |-> <<>>,
     pdf |-> NoPdf, docx |-> NoDocx]
EmptyNotesFile ==
    [name |-> NotesName, type |-> TextPlain, size |-> 0, data |-> <<>>,
     pdf |-> NoPdf, docx |-> NoDocx]

\* The files uploaded in the runs that start with no document.
FileChoices == {NotesFile, BrokenPaperFile, ArchiveFile}
\* The files of the runs that start with one stored document.
AllFiles ==
    {NotesFile, EmptyNotesFile, EssayFile, BrokenPaperFile, PaperFile, ScannedPaperFile,
     ReportFile, BrokenReportFile, SlidesFile, PhotoFile, ArchiveFile}
FileTypes == {file.type : file \in AllFiles}

(***************************************************************************)
(* State of the stores and of the ingest invocations.                      *)
(***************************************************************************)
UserId == "u1"
Invocations == 1..MaxInv

\* fileData before the download; afterwards it is the blob at a file path,
\* which the model holds by that path (a stored blob never changes).
NoBlob == 0
\* A response without a body, and no response yet.
NullBody == [null |-> TRUE]
NoResponse == [status |-> 0, body |-> NullBody]
IdleInvocation ==
    [pc |-> "idle", documentId |-> 0, filePath |-> 0, fileName |-> <<>>,
     fileType |-> <<>>, fileData |-> NoBlob, extractedText |-> <<>>,
     textError |-> "", response |-> NoResponse]

\* The data of a read: null when the read failed, the rows otherwise.
NullData == [isNull |-> TRUE, rows |-> <<>>]
Data(rows) == [isNull |-> FALSE, rows |-> rows]
NoRows == Data(<<>>)

\* The prompt, by its parts: which of the two templates, and the texts the
\* template embeds.
Prompt(documentContext, conversationHistory, message) ==
    [template |-> IF documentContext # <<>> THEN "documents" ELSE "general",
     documentContext |-> documentContext,
     conversationHistory |-> conversationHistory,
     message |-> message]

IdleChat ==
    [pc |-> "idle", message |-> <<>>, conversationId |-> 0, requester |-> "",
     messages |-> NoRows, conversationHistory |-> <<>>, userId |-> "", documents |-> NoRows,
     documentContext |-> <<>>, sources |-> <<>>, prompt |-> Prompt(<<>>, <<>>, <<>>),
     geminiCalls |-> 0, response |-> NoResponse]

\* ChatInterface before a submit. selected is the conversation the parent
\* has selected (0: none), user the signed-in user ("": none); messages,
\* input, isLoading and uploadedFiles are the component's state;
\* conversationId is the prop as the running handleSubmit captured it, and
\* currentConversationId, userInput and data are its locals. fetch is the
\* position of the fetchMessages call that the effect on the prop started
\* while handleSubmit runs, and fetched the data of its read.
IdleTurn ==
    [pc |-> "idle", selected |-> 0, user |-> "", messages |-> <<>>, input |-> <<>>,
     isLoading |-> FALSE, uploadedFiles |-> <<>>, conversationId |-> 0,
     currentConversationId |-> 0, userInput |-> <<>>, data |-> NullBody,
     fetch |-> "idle", fetched |-> <<>>]

\* FileUpload before a selection: the state and the locals of
\* handleFileSelect and of the uploadFile call it awaits; onUpload is the
\* list of the arguments onUpload was called with.
IdleSelection ==
    [pc |-> "idle", files |-> <<>>, i |-> 0, uploadedFiles |-> <<>>, uploading |-> FALSE,
     filePath |-> 0, document |-> 0, request |-> 0, onUpload |-> <<>>]

Init ==
    /\ docs = <<>>
    /\ storage = <<>>
    /\ chunkRows = <<>>
    /\ inv = [i \in Invocations |-> IdleInvocation]
    /\ messages = <<>>
    /\ chat = IdleChat
    /\ conversations = <<>>
    /\ turn = IdleTurn
    /\ sel = IdleSelection
    /\ cText = <<>>
    /\ cMax = 1
    /\ cChunks = <<>>
    /\ cPc = "off"

(***************************************************************************)
(* uploadFile: the blob upload and the document insert.                    *)
(***************************************************************************)
\* The row uploadFile inserts; content is not given and stays null. The file
\* path of a blob is user id and generated file name; the model numbers the paths.
NewDocument(file, filePath) ==
    [user_id |-> UserId, title |-> file.name, file_name |-> filePath,
     file_type |-> file.type,
     file_size |-> file.size, content |-> Null,
     metadata |-> [original_name |-> file.name, storage_path |-> filePath]]

uploadFile(file, dbOk) ==
    /\ Len(storage) < MaxDocs
    /\ storage' = Append(storage, file)
    /\ docs' = IF dbOk THEN Append(docs, NewDocument(file, Len(storage) + 1)) ELSE docs
    /\ UNCHANGED <<chunkRows, inv, chatVars, clientVars, chunkVars>>

(***************************************************************************)
(* The ingest operation (serve handler of process-document), one action    *)
(* per await of the handler.                                               *)
(***************************************************************************)
SuccessResponse(documentId, extractedText, chunks) ==
    [status |-> 200,
     body |-> [success |-> TRUE, documentId |-> documentId,
               extractedLength |-> Len(extractedText), chunksCreated |-> Len(chunks)]]
SoftFailureResponse(message) ==
    [status |-> 200,
     body |-> [success |-> FALSE, error |-> "Text extraction failed", details |-> message]]
HardFailureResponse(message) ==
    [status |-> 500, body |-> [error |-> message]]
PreflightResponse == [status |-> 200, body |-> NullBody]

\* The handler returned: its locals are gone, the response is what remains.
Returned(response) == [IdleInvocation EXCEPT !.pc = "done", !.response = response]

\* new Date().toISOString(): the model does not tell the times of day apart.
Now == "now"

\* The metadata of the success update and of the update in the catch.
ProcessedMetadata(extractedText, now) ==
    [processed |-> TRUE, processed_at |-> now,
     word_count |-> Len(SplitRuns(extractedText, Whitespace))]
FailedMetadata(message, now) ==
    [processed |-> FALSE, processing_error |-> message, processed_at |-> now]

\* The chunk rows of one bulk insert.
ChunksData(documentId, chunks) ==
    [index \in 1..Len(chunks) |->
        [document_id |-> documentId, content |-> chunks[index],
         metadata |-> [chunk_index |-> index - 1, chunk_size |-> Len(chunks[index])]]]

\* Messages of the errors of the collaborators.
JsonParseMessage == "Unexpected end of JSON input"
StorageErrors == {"Object not found"}
DatabaseErrors == {"connection lost"}

\* A request arrives: OPTIONS is answered at once.
ServeOptions(i) ==
    /\ inv[i].pc = "idle"
    /\ \A j \in 1..(i - 1) : inv[j].pc # "idle"
    /\ inv' = [inv EXCEPT ![i] = Returned(PreflightResponse)]
    /\ UNCHANGED <<docs, storage, chunkRows, chatVars, clientVars, chunkVars>>

\* req.json() throws on a body that is not JSON: the outer catch answers.
ServeBadBody(i) ==
    /\ inv[i].pc = "idle"
    /\ \A j \in 1..(i - 1) : inv[j].pc # "idle"
    /\ inv' = [inv EXCEPT ![i] = Returned(HardFailureResponse(JsonParseMessage))]
    /\ UNCHANGED <<docs, storage, chunkRows, chatVars, clientVars, chunkVars>>

\* req.json() yields {documentId, filePath, fileName, fileType}; the download starts.
Serve(i, documentId, fileType) ==
    /\ inv[i].pc = "idle"
    /\ \A j \in 1..(i - 1) : inv[j].pc # "idle"
    /\ documentId \in 1..Len(docs)
    /\ fileType \in {docs[documentId].file_type, Undefined}
    /\ inv' = [inv EXCEPT ![i].pc = "download",
                          ![i].documentId = documentId,
                          ![i].filePath = docs[documentId].file_name,
                          ![i].fileName = docs[documentId].title,
                          ![i].fileType = fileType]
    /\ UNCHANGED <<docs, storage, chunkRows, chatVars, clientVars, chunkVars>>

\* A download error thrown inside the inner try: handled as a text error.
DownloadFailedAsTextError(i, message) ==
    /\ inv[i].pc = "download"
    /\ inv' = [inv EXCEPT ![i].pc = "catch",
                          ![i].textError = "Failed to download file: " \o message]
    /\ UNCHANGED <<docs, storage, chunkRows, chatVars, clientVars, chunkVars>>

\* storage.download returned an error: thrown to the outer catch.
DownloadFailed(i, message) ==
    /\ inv[i].pc = "download"
    /\ inv' = [inv EXCEPT ![i] =
                   Returned(HardFailureResponse("Failed to download file: " \o message))]
    /\ UNCHANGED <<docs, storage, chunkRows, chatVars, clientVars, chunkVars>>

DownloadOk(i) ==
    /\ inv[i].pc = "download"
    /\ inv[i].filePath \in 1..Len(storage)
    /\ inv' = [inv EXCEPT ![i].pc = "extract", ![i].fileData = inv[i].filePath]
    /\ UNCHANGED <<docs, storage, chunkRows, chatVars, clientVars, chunkVars>>

\* The extractor dispatch followed at once by the chunking, the document
\* update left out.
ExtractSkipsUpdate(i) ==
    /\ inv[i].pc = "extract"
    /\ LET r == ExtractText(inv[i].fileType, inv[i].fileName, storage[inv[i].fileData])
       IN  inv' = IF r.ok
                  THEN [inv EXCEPT ![i].pc = "insert", ![i].extractedText = r.text]
                  ELSE [inv EXCEPT ![i].pc = "catch", ![i].textError = r.message]
    /\ UNCHANGED <<docs, storage, chunkRows, chatVars, clientVars, chunkVars>>
\* The extractor dispatch; an exception goes to catch (textError).
Extract(i) ==
    /\ inv[i].pc = "extract"
    /\ LET r == ExtractText(inv[i].fileType, inv[i].fileName, storage[inv[i].fileData])
       IN  inv' = IF r.ok
                  THEN [inv EXCEPT ![i].pc = "update", ![i].extractedText = r.text]
                  ELSE [inv EXCEPT ![i].pc = "catch", ![i].textError = r.message]
    /\ UNCHANGED <<docs, storage, chunkRows, chatVars, clientVars, chunkVars>>

\* The success update without the filter on the id: it writes every row.
UpdateOkOfEveryDocument(i) ==
    /\ inv[i].pc = "update"
    /\ docs' = [d \in 1..Len(docs) |->
                   [docs[d] EXCEPT !.content = inv[i].extractedText,
                                   !.metadata = ProcessedMetadata(inv[i].extractedText, Now)]]
    /\ inv' = [inv EXCEPT ![i].pc = "insert"]
    /\ UNCHANGED <<storage, chunkRows, chatVars, clientVars, chunkVars>>
\* The success update that keeps the keys the metadata already had.
UpdateOkMergesMetadata(i) ==
    /\ inv[i].pc = "update"
    /\ LET old == docs[inv[i].documentId].metadata
           new == ProcessedMetadata(inv[i].extractedText, Now)
       IN  docs' = [docs EXCEPT ![inv[i].documentId].content = inv[i].extractedText,
                                ![inv[i].documentId].metadata =
                                    [k \in DOMAIN old \cup DOMAIN new |->
                                        IF k \in DOMAIN new THEN new[k] ELSE old[k]]]
    /\ inv' = [inv EXCEPT ![i].pc = "insert"]
    /\ UNCHANGED <<storage, chunkRows, chatVars, clientVars, chunkVars>>
\* documents.update({content, metadata}).eq('id', documentId) succeeded.
UpdateOk(i) ==
    /\ inv[i].pc = "update"
    /\ docs' = [docs EXCEPT ![inv[i].documentId].content = inv[i].extractedText,
                            ![inv[i].documentId].metadata =
                                ProcessedMetadata(inv[i].extractedText, Now)]
    /\ inv' = [inv EXCEPT ![i].pc = "insert"]
    /\ UNCHANGED <<storage, chunkRows, chatVars, clientVars, chunkVars>>

\* A failed document update after which the extraction is run again.
UpdateFailedRestarts(i, message) ==
    /\ inv[i].pc = "update"
    /\ inv' = [inv EXCEPT ![i].pc = "extract", ![i].extractedText = <<>>]
    /\ UNCHANGED <<docs, storage, chunkRows, chatVars, clientVars, chunkVars>>

\* The update returned updateError: thrown to catch (textError).
UpdateFailed(i, message) ==
    /\ inv[i].pc = "update"
    /\ inv' = [inv EXCEPT ![i].pc = "catch",
                          ![i].textError = "Failed to update document: " \o message]
    /\ UNCHANGED <<docs, storage, chunkRows, chatVars, clientVars, chunkVars>>

\* The bulk insert with chunksError thrown instead of logged.
InsertChunksThrows(i, insertOk) ==
    /\ inv[i].pc = "insert"
    /\ LET chunks == createTextChunks(inv[i].extractedText, ChunkSize)
       IN  /\ chunkRows' = IF Len(chunks) > 0 /\ insertOk
                           THEN chunkRows \o ChunksData(inv[i].documentId, chunks)
                           ELSE chunkRows
           /\ Len(chunks) = 0 => insertOk
           /\ inv' = IF insertOk
                     THEN [inv EXCEPT ![i] =
                              Returned(SuccessResponse(inv[i].documentId,
                                                       inv[i].extractedText, chunks))]
                     ELSE [inv EXCEPT ![i].pc = "catch",
                                      ![i].textError = "Failed to create chunks"]
    /\ UNCHANGED <<docs, storage, chatVars, clientVars, chunkVars>>

\* The success response that reports the number of chunk rows stored.
InsertChunksReportsStored(i, insertOk) ==
    /\ inv[i].pc = "insert"
    /\ LET chunks == createTextChunks(inv[i].extractedText, ChunkSize)
           stored == IF insertOk THEN chunks ELSE <<>>
       IN  /\ chunkRows' = chunkRows \o ChunksData(inv[i].documentId, stored)
           /\ Len(chunks) = 0 => insertOk
           /\ inv' = [inv EXCEPT ![i] =
                         Returned(SuccessResponse(inv[i].documentId, inv[i].extractedText,
                                                  stored))]
    /\ UNCHANGED <<docs, storage, chatVars, clientVars, chunkVars>>
\* createTextChunks, the bulk insert when there are chunks, and the success
\* response; chunksError is only logged.
InsertChunks(i, insertOk) ==
    /\ inv[i].pc = "insert"
    /\ LET chunks == createTextChunks(inv[i].extractedText, ChunkSize)
       IN  /\ chunkRows' = IF Len(chunks) > 0 /\ insertOk
                           THEN chunkRows \o ChunksData(inv[i].documentId, chunks)
                           ELSE chunkRows
           /\ Len(chunks) = 0 => insertOk
           /\ inv' = [inv EXCEPT ![i] =
                         Returned(SuccessResponse(inv[i].documentId, inv[i].extractedText,
                                                  chunks))]
    /\ UNCHANGED <<docs, storage, chatVars, clientVars, chunkVars>>

\* catch (textError): the metadata update, whose result is not looked at,
\* and the soft failure response.
CatchTextError(i, updateOk) ==
    /\ inv[i].pc = "catch"
    /\ docs' = IF updateOk
               THEN [docs EXCEPT ![inv[i].documentId].metadata =
                                     FailedMetadata(inv[i].textError, Now)]
               ELSE docs
    /\ inv' = [inv EXCEPT ![i] = Returned(SoftFailureResponse(inv[i].textError))]
    /\ UNCHANGED <<storage, chunkRows, chatVars, clientVars, chunkVars>>

vars == <<docs, storage, chunkRows, inv, messages, chat, conversations, turn, sel,
         cText, cMax, cChunks, cPc>>

\* The steps of the ingest invocations.
Ingest ==
    \/ \E i \in Invocations : ServeOptions(i)
    \/ \E i \in Invocations : ServeBadBody(i)
    \/ \E i \in Invocations, d \in 1..MaxDocs, ft \in FileTypes \cup {Undefined} :
          Serve(i, d, ft)
    \/ \E i \in Invocations, m \in StorageErrors : DownloadFailed(i, m)
    \/ \E i \in Invocations : DownloadOk(i)
    \/ \E i \in Invocations : Extract(i)
    \/ \E i \in Invocations : UpdateOk(i)
    \/ \E i \in Invocations, m \in DatabaseErrors : UpdateFailed(i, m)
    \/ \E i \in Invocations, insertOk \in BOOLEAN : InsertChunks(i, insertOk)
    \/ \E i \in Invocations, updateOk \in BOOLEAN : CatchTextError(i, updateOk)

Next ==
    \/ \E file \in FileChoices, dbOk \in BOOLEAN : uploadFile(file, dbOk)
    \/ Ingest

Spec == Init /\ [][Next]_vars

\* The runs that start when one file, of any kind, has been uploaded.
StoredInit ==
    /\ \E file \in AllFiles :
          /\ storage = <<file>>
          /\ docs = <<NewDocument(file, 1)>>
    /\ chunkRows = <<>>
    /\ inv = [i \in Invocations |-> IdleInvocation]
    /\ messages = <<>>
    /\ chat = IdleChat
    /\ conversations = <<>>
    /\ turn = IdleTurn
    /\ sel = IdleSelection
    /\ cText = <<>>
    /\ cMax = 1
    /\ cChunks = <<>>
    /\ cPc = "off"

SpecStored == StoredInit /\ [][Ingest]_vars
\* The runs of concurrent invocations for different documents: one uploaded
\* file per invocation, and invocation i is the one for document i.
ConcurrentFiles == {NotesFile, BrokenPaperFile}

ConcurrentInit ==
    /\ \E files \in [Invocations -> ConcurrentFiles] :
          /\ storage = [d \in Invocations |-> files[d]]
          /\ docs = [d \in Invocations |-> NewDocument(files[d], d)]
    /\ chunkRows = <<>>
    /\ inv = [i \in Invocations |-> IdleInvocation]
    /\ messages = <<>>
    /\ chat = IdleChat
    /\ conversations = <<>>
    /\ turn = IdleTurn
    /\ sel = IdleSelection
    /\ cText = <<>>
    /\ cMax = 1
    /\ cChunks = <<>>
    /\ cPc = "off"

ConcurrentNext ==
    \/ \E i \in Invocations : ServeOptions(i)
    \/ \E i \in Invocations : ServeBadBody(i)
    \/ \E i \in Invocations, ft \in FileTypes \cup {Undefined} : Serve(i, i, ft)
    \/ \E i \in Invocations, m \in StorageErrors : DownloadFailed(i, m)
    \/ \E i \in Invocations : DownloadOk(i)
    \/ \E i \in Invocations : Extract(i)
    \/ \E i \in Invocations : UpdateOk(i)
    \/ \E i \in Invocations, m \in DatabaseErrors : UpdateFailed(i, m)
    \/ \E i \in Invocations, insertOk \in BOOLEAN : InsertChunks(i, insertOk)
    \/ \E i \in Invocations, updateOk \in BOOLEAN : CatchTextError(i, updateOk)

SpecConcurrent == ConcurrentInit /\ [][ConcurrentNext]_vars

(***************************************************************************)
(* The chunker applied to every text up to MaxTextLen and every            *)
(* maxChunkSize up to MaxChunkArg.                                         *)
(***************************************************************************)
Texts == UNION {[1..n -> Alphabet] : n \in 0..MaxTextLen}

ChunkInit ==
    /\ cText \in Texts
    /\ cMax \in 1..MaxChunkArg
    /\ cChunks = <<>>
    /\ cPc = "ready"
    /\ docs = <<>>
    /\ storage = <<>>
    /\ chunkRows = <<>>
    /\ inv = [i \in Invocations |-> IdleInvocation]
    /\ messages = <<>>
    /\ chat = IdleChat
    /\ conversations = <<>>
    /\ turn = IdleTurn
    /\ sel = IdleSelection

RunChunker ==
    /\ cPc = "ready"
    /\ cChunks' = createTextChunks(cText, cMax)
    /\ cPc' = "done"
    /\ UNCHANGED <<cText, cMax, docs, storage, chunkRows, inv, chatVars, clientVars>>

SpecChunk == ChunkInit /\ [][RunChunker]_vars

\* Scenario A of the specification and small cases of the chunker.
ScenarioText == <<"H","e","l","l","o"," ","w","o","r","l","d","."," ",
                  "T","h","i","s"," ","i","s"," ","a"," ","t","e","s","t",".">>
ChunkerExamples ==
    /\ createTextChunks(ScenarioText, 15)
         = << <<"H","e","l","l","o"," ","w","o","r","l","d">>,
              <<"T","h","i","s"," ","i","s"," ","a"," ","t","e","s","t">> >>
    /\ createTextChunks(<<"a", ".", "b">>, 3) = << <<"a", ".", " ", "b">> >>
    /\ createTextChunks(<<"a", " ", "b">>, 2) = << <<"a">>, <<"b">> >>
    /\ createTextChunks(<<>>, 2) = <<>>
    /\ SplitRuns(<<>>, Terminators) = << <<>> >>
    /\ SplitRuns(<<".", "a", ".", "!">>, Terminators) = << <<>>, <<"a">>, <<>> >>
    /\ SplitChar(<<"a", " ", " ", "b">>, " ") = << <<"a">>, <<>>, <<"b">> >>

(***************************************************************************)
(* The chat operation (serve handler of the chat function), one action per *)
(* await of the handler.                                                   *)
(***************************************************************************)
HistoryLimit == 10
DocumentScanLimit == 5
KeywordMinLength == 3
ExcerptLength == 1000

\* String.prototype.toLowerCase
ToLowerCase(s) ==
    [k \in 1..Len(s) |->
        IF \E j \in 1..Len(UpperCase) : UpperCase[j] = s[k]
        THEN LowerCase[CHOOSE j \in 1..Len(UpperCase) : UpperCase[j] = s[k]]
        ELSE s[k]]

\* String.prototype.includes
Includes(s, part) ==
    \E start \in 1..(Len(s) - Len(part) + 1) : SubSeq(s, start, start + Len(part) - 1) = part

\* String.prototype.substring(0, n)
Substring0(s, n) == SubSeq(s, 1, IF Len(s) < n THEN Len(s) ELSE n)

\* message.toLowerCase().split(' ').filter(word => word.length > 3)
Keywords(message) ==
    LET Long(word) == Len(word) > KeywordMinLength
    IN  SelectSeq(SplitChar(ToLowerCase(message), " "), Long)

\* The filter of the documents read: a row with content that includes a keyword.
IsRelevant(doc, keywords) ==
    /\ doc.content # Null
    /\ doc.content # <<>>
    /\ \E k \in 1..Len(keywords) : Includes(ToLowerCase(doc.content), keywords[k])

\* The rows the ids name, in table order, as select('id, title, content, metadata') gives them.
RowsOf(ids) ==
    LET sorted == SortedSeq(ids)
    IN  [k \in 1..Len(sorted) |->
            [id |-> sorted[k], title |-> docs[sorted[k]].title,
             content |-> docs[sorted[k]].content, metadata |-> docs[sorted[k]].metadata]]

\* The documents read without the filter on the owner.
DocumentReadsOfAnyUser(userId) ==
    LET match == {d \in 1..Len(docs) : docs[d].content # Null}
    IN  IF Cardinality(match) <= DocumentScanLimit THEN {match}
        ELSE {ids \in SUBSET match : Cardinality(ids) = DocumentScanLimit}

\* The ids the documents read may return: rows of the user with content,
\* at most DocumentScanLimit of them. The query gives no order, so which rows
\* are kept when there are more is the store's choice.
DocumentReads(userId) ==
    LET match == {d \in 1..Len(docs) : docs[d].user_id = userId /\ docs[d].content # Null}
    IN  IF Cardinality(match) <= DocumentScanLimit THEN {match}
        ELSE {ids \in SUBSET match : Cardinality(ids) = DocumentScanLimit}

RelevantDocs(documents, message) ==
    LET keywords == Keywords(message)
        Relevant(doc) == IsRelevant(doc, keywords)
    IN  SelectSeq(documents, Relevant)

\* The excerpt with the whole content, substring left out.
DocumentExcerptUncut(doc) ==
    DocumentLabel \o doc.title \o ContentLabel \o doc.content \o Ellipsis

\* `Document: ${doc.title}\nContent: ${doc.content.substring(0, 1000)}...`
DocumentExcerpt(doc) ==
    DocumentLabel \o doc.title \o ContentLabel \o Substring0(doc.content, ExcerptLength)
                  \o Ellipsis

DocumentContext(relevantDocs) ==
    Join([k \in 1..Len(relevantDocs) |-> DocumentExcerpt(relevantDocs[k])], DocumentSeparator)

Sources(relevantDocs) ==
    [k \in 1..Len(relevantDocs) |->
        [document_id |-> relevantDocs[k].id, document_title |-> relevantDocs[k].title,
         relevance_score |-> 1]]

\* `${msg.role === 'user' ? 'User' : 'Assistant'}: ${msg.content}` joined by blank lines
HistoryText(rows) ==
    Join([k \in 1..Len(rows) |->
             (IF rows[k].role = "user" THEN UserLabel ELSE AssistantLabel)
                 \o <<":", " ">> \o rows[k].content],
         <<"\n", "\n">>)

\* select('role, content') of the messages of the conversation, ascending by
\* created_at, the first HistoryLimit rows
HistoryRead(conversationId) ==
    LET Mine(row) == row.conversation_id = conversationId
        rows == SelectSeq(messages, Mine)
        kept == SubSeq(rows, 1, IF Len(rows) < HistoryLimit THEN Len(rows) ELSE HistoryLimit)
    IN  [k \in 1..Len(kept) |-> [role |-> kept[k].role, content |-> kept[k].content]]

\* The handler returned: the response is what remains, and geminiCalls, the
\* number of requests the invocation has sent to the completion backend.
ChatReturned(response) ==
    [IdleChat EXCEPT !.pc = "done", !.response = response, !.geminiCalls = chat.geminiCalls]

\* The CORS preflight: answered before anything is read.
ChatOptions ==
    /\ chat.pc = "idle"
    /\ chat' = ChatReturned(PreflightResponse)
    /\ UNCHANGED <<docs, messages, storage, chunkRows, inv, clientVars, chunkVars>>

\* req.json() throws on a body that is not JSON.
ChatBadBody ==
    /\ chat.pc = "idle"
    /\ chat' = ChatReturned(HardFailureResponse(JsonParseMessage))
    /\ UNCHANGED <<docs, messages, storage, chunkRows, inv, clientVars, chunkVars>>

\* req.json() yields {message, conversationId, files}; conversationId 0 is a
\* request without one. requester is the user whose token the request carries.
ChatServe(message, conversationId, requester) ==
    /\ chat.pc = "idle"
    /\ chat' = [chat EXCEPT !.pc = IF conversationId # 0 THEN "history" ELSE "user",
                            !.message = message,
                            !.conversationId = conversationId,
                            !.requester = requester]
    /\ UNCHANGED <<docs, messages, storage, chunkRows, inv, clientVars, chunkVars>>

\* The history read; data is null when the read fails.
ChatHistory(readOk) ==
    /\ chat.pc = "history"
    /\ LET rows == IF readOk THEN HistoryRead(chat.conversationId) ELSE <<>>
       IN  chat' = [chat EXCEPT !.pc = "user",
                                !.messages = IF readOk THEN Data(rows) ELSE NullData,
                                !.conversationHistory = HistoryText(rows)]
    /\ UNCHANGED <<docs, messages, storage, chunkRows, inv, clientVars, chunkVars>>

\* auth.getUser(): the requester, or no user ("").
ChatGetUser(userId) ==
    /\ chat.pc = "user"
    /\ userId \in {chat.requester, ""}
    /\ chat' = [chat EXCEPT !.pc = IF userId # "" THEN "documents" ELSE "gemini",
                            !.userId = userId,
                            !.prompt = IF userId # "" THEN @
                                       ELSE Prompt(<<>>, chat.conversationHistory, chat.message)]
    /\ UNCHANGED <<docs, messages, storage, chunkRows, inv, clientVars, chunkVars>>

\* The documents read, the relevance selection and the prompt. When the
\* read fails documents is null and the selection is skipped.
ChatDocuments(readOk, ids) ==
    /\ chat.pc = "documents"
    /\ readOk => ids \in DocumentReads(chat.userId)
    /\ ~readOk => ids = {}
    /\ LET documents    == IF readOk THEN Data(RowsOf(ids)) ELSE NullData
           relevantDocs == RelevantDocs(documents.rows, chat.message)
       IN  chat' = [chat EXCEPT !.pc = "gemini",
                                !.documents = documents,
                                !.documentContext = DocumentContext(relevantDocs),
                                !.sources = Sources(relevantDocs),
                                !.prompt = Prompt(DocumentContext(relevantDocs),
                                                  chat.conversationHistory, chat.message)]
    /\ UNCHANGED <<docs, messages, storage, chunkRows, inv, clientVars, chunkVars>>

\* The completion backend answered with a candidate.
ChatGeminiOk(aiResponse) ==
    /\ chat.pc = "gemini"
    /\ chat' = [ChatReturned(
                   [status |-> 200,
                    body |-> [response |-> aiResponse,
                              metadata |-> [sources |-> chat.sources,
                                            has_document_context |-> Len(chat.documentContext) > 0,
                                            conversation_id |-> chat.conversationId]]])
                   EXCEPT !.geminiCalls = chat.geminiCalls + 1]
    /\ UNCHANGED <<docs, messages, storage, chunkRows, inv, clientVars, chunkVars>>

\* A failed backend call that is repeated once before the failure is reported.
ChatGeminiFailedAfterRetry(message) ==
    /\ chat.pc = "gemini"
    /\ chat' = [ChatReturned(HardFailureResponse(message))
                   EXCEPT !.geminiCalls = chat.geminiCalls + 2]
    /\ UNCHANGED <<docs, messages, storage, chunkRows, inv, clientVars, chunkVars>>

\* The backend answered with a failure status, or without a candidate.
ChatGeminiFailed(message) ==
    /\ chat.pc = "gemini"
    /\ chat' = [ChatReturned(HardFailureResponse(message))
                   EXCEPT !.geminiCalls = chat.geminiCalls + 1]
    /\ UNCHANGED <<docs, messages, storage, chunkRows, inv, clientVars, chunkVars>>

GeminiErrors == {"Gemini API error: 503", "Invalid response from Gemini API"}
Questions == {QuestionScenarioC, QuestionTwoLines, QuestionShortWords, QuestionRock}
Users == {"u1", "u2"}

\* The stores when the chat request arrives. Conversation 1 is of user u1,
\* conversation 2 of user u2. Either up to MaxChatDocs documents (the
\* second one of user u2 with a text of its own, the others of user u1, each
\* processed with one of two contents, the first one possibly not
\* processed) and a short history, or one document and up to MaxMessages
\* numbered messages in conversation 1, or one document whose content is
\* ExcerptLength characters or up to MaxOverrun more and a short history.
LongLeafText(overrun) ==
    LeafText \o Repeat("x", ExcerptLength - Len(LeafText)) \o Repeat("y", overrun)

ChatDocument(d, content) ==
    LET text == IF d = 2 /\ content # Null THEN PrivateMark \o content ELSE content
    IN  [user_id |-> IF d = 2 THEN "u2" ELSE "u1", title |-> LeafTitle, file_name |-> d,
         file_type |-> TextPlain, file_size |-> 0, content |-> text,
         metadata |-> IF content = Null
                      THEN [original_name |-> LeafTitle, storage_path |-> d]
                      ELSE ProcessedMetadata(text, Now)]

Message(conversationId, role, content) ==
    [conversation_id |-> conversationId, role |-> role, content |-> content]

ShortHistory ==
    << Message(1, "user", EarlierQuestion),
       Message(2, "user", PrivateQuestion),
       Message(1, "assistant", EarlierAnswer) >>

NumberedHistory(n) ==
    <<Message(2, "user", PrivateQuestion)>> \o
    [k \in 1..n |-> Message(1, IF k % 2 = 1 THEN "user" ELSE "assistant", Decimal(k))]

ChatInit ==
    /\ \/ /\ \E n \in 0..MaxChatDocs :
               \E contents \in [1..n -> {Null, LeafText, RockText}] :
                  /\ \A d \in 2..n : contents[d] # Null
                  /\ docs = [d \in 1..n |-> ChatDocument(d, contents[d])]
          /\ messages = ShortHistory
       \/ /\ docs = <<ChatDocument(1, LeafText)>>
          /\ \E n \in 0..MaxMessages : messages = NumberedHistory(n)
       \/ /\ \E overrun \in 0..MaxOverrun : docs = <<ChatDocument(1, LongLeafText(overrun))>>
          /\ messages = ShortHistory
    /\ conversations = <<[user_id |-> "u1"], [user_id |-> "u2"]>>
    /\ chat = IdleChat
    /\ turn = IdleTurn
    /\ sel = IdleSelection
    /\ storage = <<>>
    /\ chunkRows = <<>>
    /\ inv = [i \in Invocations |-> IdleInvocation]
    /\ cText = <<>>
    /\ cMax = 1
    /\ cChunks = <<>>
    /\ cPc = "off"

\* The conversation ids a request may carry: none (0), one of each user,
\* one that does not exist.
RequestConversations == 0..3

ChatNext ==
    \/ ChatOptions
    \/ ChatBadBody
    \/ \E message \in Questions, conversationId \in RequestConversations :
          ChatServe(message, conversationId, "u1")
    \/ \E readOk \in BOOLEAN : ChatHistory(readOk)
    \/ \E userId \in Users \cup {""} : ChatGetUser(userId)
    \/ \E readOk \in BOOLEAN, ids \in SUBSET (1..MaxChatDocs) : ChatDocuments(readOk, ids)
    \/ ChatGeminiOk(AnswerText)
    \/ \E message \in GeminiErrors : ChatGeminiFailed(message)

SpecChat == ChatInit /\ [][ChatNext]_vars

(***************************************************************************)
(* ChatInterface: handleSubmit, one action per await, with the chat        *)
(* function it invokes.                                                    *)
(***************************************************************************)
TitleLength == 100
NewChatTitle == <<"N", "e", "w", " ", "C", "h", "a", "t">>

\* A row of the messages table as saveMessage inserts it.
SavedMessage(conversationId, role, content, metadata) ==
    [conversation_id |-> conversationId, role |-> role, content |-> content,
     metadata |-> metadata]

\* A message of the component's state.
ShownMessage(role, content) == [role |-> role, content |-> content]

\* fetchMessages: the rows of the conversation, ascending by created_at.
FetchedMessages(conversationId) ==
    LET Mine(row) == row.conversation_id = conversationId
        rows == SelectSeq(messages, Mine)
    IN  [k \in 1..Len(rows) |-> ShownMessage(rows[k].role, rows[k].content)]

\* The parent selects a conversation of the user; the effect on the prop
\* loads its messages.
SelectConversation(c) ==
    /\ turn.pc = "idle"
    /\ turn.user # ""
    /\ c \in 1..Len(conversations)
    /\ conversations[c].user_id = turn.user
    /\ turn.selected # c
    /\ turn' = [turn EXCEPT !.selected = c, !.messages = FetchedMessages(c)]
    /\ UNCHANGED <<docs, storage, chunkRows, inv, chatVars, conversations, sel, chunkVars>>

\* The user types into the input.
setInput(text) ==
    /\ turn.pc = "idle"
    /\ turn.input = <<>>
    /\ text # <<>>
    /\ turn' = [turn EXCEPT !.input = text]
    /\ UNCHANGED <<docs, storage, chunkRows, inv, chatVars, conversations, sel, chunkVars>>

\* handleFileUpload: the files the upload component handed over.
handleFileUpload(files) ==
    /\ turn.pc = "idle"
    /\ turn.uploadedFiles = <<>>
    /\ files # <<>>
    /\ turn' = [turn EXCEPT !.uploadedFiles = files]
    /\ UNCHANGED <<docs, storage, chunkRows, inv, chatVars, conversations, sel, chunkVars>>

\* The handler is over: finally sets isLoading to false.
TurnFinished(t) == [t EXCEPT !.pc = "done", !.isLoading = FALSE]

\* handleSubmit up to its first await.
handleSubmit ==
    /\ turn.pc = "idle"
    /\ IF (Trim(turn.input) = <<>> /\ turn.uploadedFiles = <<>>) \/ turn.user = ""
       THEN turn' = [turn EXCEPT !.pc = "done"]
       ELSE turn' = [turn EXCEPT !.pc = IF turn.selected = 0 THEN "create" ELSE "saveUser",
                                 !.isLoading = TRUE,
                                 !.conversationId = turn.selected,
                                 !.currentConversationId = turn.selected,
                                 !.messages = IF turn.selected = 0 THEN @
                                              ELSE Append(@, ShownMessage("user", Trim(turn.input)))]
    /\ UNCHANGED <<docs, storage, chunkRows, inv, chatVars, conversations, sel, chunkVars>>

\* createNewConversation whose failure ends handleSubmit without the finally.
CreateConversationLeavesLoading(ok) ==
    /\ turn.pc = "create"
    /\ IF ok
       THEN /\ conversations' = Append(conversations,
                    [user_id |-> turn.user,
                     title |-> Substring0(IF Trim(turn.input) # <<>> THEN Trim(turn.input)
                                          ELSE NewChatTitle, TitleLength)])
            /\ turn' = [turn EXCEPT !.pc = "saveUser",
                                    !.currentConversationId = Len(conversations) + 1,
                                    !.selected = Len(conversations) + 1,
                                    !.messages = Append(@, ShownMessage("user", Trim(turn.input))),
                                    !.fetch = "read"]
       ELSE /\ conversations' = conversations
            /\ turn' = [turn EXCEPT !.pc = "done"]
    /\ UNCHANGED <<docs, storage, chunkRows, inv, chatVars, sel, chunkVars>>
\* createNewConversation returned: the id of the inserted row, or null when
\* the insert failed, and then handleSubmit returns. With the id,
\* onConversationChange changes the prop, the temporary user message is
\* shown and saveMessage is called; at that await the component renders
\* again and the effect on the prop calls fetchMessages.
CreateConversation(ok) ==
    /\ turn.pc = "create"
    /\ IF ok
       THEN /\ conversations' = Append(conversations,
                    [user_id |-> turn.user,
                     title |-> Substring0(IF Trim(turn.input) # <<>> THEN Trim(turn.input)
                                          ELSE NewChatTitle, TitleLength)])
            /\ turn' = [turn EXCEPT !.pc = "saveUser",
                                    !.currentConversationId = Len(conversations) + 1,
                                    !.selected = Len(conversations) + 1,
                                    !.messages = Append(@, ShownMessage("user", Trim(turn.input))),
                                    !.fetch = "read"]
       ELSE /\ conversations' = conversations
            /\ turn' = TurnFinished(turn)
    /\ UNCHANGED <<docs, storage, chunkRows, inv, chatVars, sel, chunkVars>>

\* The user message saved under the conversationId prop instead of the id
\* of the conversation in use.
SaveUserMessageUnderProp(ok) ==
    /\ turn.pc = "saveUser"
    /\ messages' = IF ok
                   THEN Append(messages,
                            SavedMessage(turn.conversationId, "user", Trim(turn.input),
                                         [files |-> turn.uploadedFiles]))
                   ELSE messages
    /\ turn' = [turn EXCEPT !.pc = "invoke",
                            !.userInput = Trim(turn.input),
                            !.input = <<>>,
                            !.uploadedFiles = <<>>]
    /\ UNCHANGED <<docs, storage, chunkRows, inv, chat, conversations, sel, chunkVars>>

\* saveMessage of the user message returned (the row, or null when the
\* insert failed); the input is cleared and the chat function invoked.
SaveUserMessage(ok) ==
    /\ turn.pc = "saveUser"
    /\ messages' = IF ok
                   THEN Append(messages,
                            SavedMessage(turn.currentConversationId, "user", Trim(turn.input),
                                         [files |-> turn.uploadedFiles]))
                   ELSE messages
    /\ turn' = [turn EXCEPT !.pc = "invoke",
                            !.userInput = Trim(turn.input),
                            !.input = <<>>,
                            !.uploadedFiles = <<>>]
    /\ UNCHANGED <<docs, storage, chunkRows, inv, chat, conversations, sel, chunkVars>>

\* The request of functions.invoke('ai-chat') reaches the function.
InvokeChat ==
    /\ turn.pc = "invoke"
    /\ ChatServe(turn.userInput, turn.currentConversationId, turn.user)

\* functions.invoke failed before the function ran: error is thrown.
InvokeChatFailed ==
    /\ turn.pc = "invoke"
    /\ chat.pc = "idle"
    /\ turn' = TurnFinished(turn)
    /\ UNCHANGED <<docs, storage, chunkRows, inv, chatVars, conversations, sel, chunkVars>>

\* functions.invoke returned: with a success status the data is shown and
\* saved, otherwise error is thrown and caught.
InvokeChatReturned ==
    /\ turn.pc = "invoke"
    /\ chat.pc = "done"
    /\ IF chat.response.status = 200
       THEN turn' = [turn EXCEPT !.pc = "saveAssistant",
                                 !.data = chat.response.body,
                                 !.messages = Append(@, ShownMessage("assistant",
                                                                      chat.response.body.response))]
       ELSE turn' = TurnFinished(turn)
    /\ UNCHANGED <<docs, storage, chunkRows, inv, chatVars, conversations, sel, chunkVars>>

\* saveMessage of the assistant message returned.
SaveAssistantMessage(ok) ==
    /\ turn.pc = "saveAssistant"
    /\ messages' = IF ok
                   THEN Append(messages,
                            SavedMessage(turn.currentConversationId, "assistant",
                                         turn.data.response, turn.data.metadata))
                   ELSE messages
    /\ turn' = TurnFinished(turn)
    /\ UNCHANGED <<docs, storage, chunkRows, inv, chat, conversations, sel, chunkVars>>

\* The read of fetchMessages is served: the rows the conversation has at
\* that moment; with an error the toast is shown and messages is left alone.
FetchMessagesRead(ok) ==
    /\ turn.fetch = "read"
    /\ turn' = IF ok
               THEN [turn EXCEPT !.fetch = "set", !.fetched = FetchedMessages(turn.selected)]
               ELSE [turn EXCEPT !.fetch = "idle"]
    /\ UNCHANGED <<docs, storage, chunkRows, inv, chatVars, conversations, sel, chunkVars>>

\* fetchMessages continues after its await: setMessages(data) replaces the list.
FetchMessagesSet ==
    /\ turn.fetch = "set"
    /\ turn' = [turn EXCEPT !.fetch = "idle", !.messages = turn.fetched, !.fetched = <<>>]
    /\ UNCHANGED <<docs, storage, chunkRows, inv, chatVars, conversations, sel, chunkVars>>

\* The stores when the component is mounted: no document, a document of the
\* user, or one of each user; the two conversations and their messages.
TurnInit ==
    /\ docs \in {<<>>, <<ChatDocument(1, LeafText)>>,
                 <<ChatDocument(1, RockText), ChatDocument(2, LeafText)>>}
    /\ messages = ShortHistory
    /\ conversations = <<[user_id |-> "u1", title |-> EarlierQuestion],
                         [user_id |-> "u2", title |-> PrivateQuestion]>>
    /\ chat = IdleChat
    /\ \E user \in {UserId, ""} : turn = [IdleTurn EXCEPT !.user = user]
    /\ sel = IdleSelection
    /\ storage = <<>>
    /\ chunkRows = <<>>
    /\ inv = [i \in Invocations |-> IdleInvocation]
    /\ cText = <<>>
    /\ cMax = 1
    /\ cChunks = <<>>
    /\ cPc = "off"

TurnInputs == Questions \cup {<<" ">>}

TurnNext ==
    \/ \E c \in 1..Len(conversations) : SelectConversation(c)
    \/ \E text \in TurnInputs : setInput(text)
    \/ handleFileUpload(<<1>>)
    \/ handleSubmit
    \/ \E ok \in BOOLEAN : CreateConversation(ok)
    \/ \E ok \in BOOLEAN : SaveUserMessage(ok)
    \/ InvokeChat
    \/ InvokeChatFailed
    \/ InvokeChatReturned
    \/ \E ok \in BOOLEAN : SaveAssistantMessage(ok)
    \/ \E ok \in BOOLEAN : FetchMessagesRead(ok)
    \/ FetchMessagesSet
    \/ \E readOk \in BOOLEAN : ChatHistory(readOk)
    \/ \E userId \in Users \cup {""} : ChatGetUser(userId)
    \/ \E readOk \in BOOLEAN, ids \in SUBSET (1..MaxChatDocs) : ChatDocuments(readOk, ids)
    \/ ChatGeminiOk(AnswerText)
    \/ \E message \in GeminiErrors : ChatGeminiFailed(message)

SpecTurn == TurnInit /\ [][TurnNext]_vars

(***************************************************************************)
(* FileUpload: handleFileSelect and the uploadFile calls it awaits, one    *)
(* action per await, with the ingest operation uploadFile invokes.         *)
(***************************************************************************)
MaxFileSize == 10485760

\* A file of one byte more than the size limit, and one of exactly the
\* limit; their bytes are not modelled.
HugeNotesFile ==
    [name |-> NotesName, type |-> TextPlain, size |-> MaxFileSize + 1, data |-> <<>>,
     pdf |-> NoPdf, docx |-> NoDocx]
LimitNotesFile ==
    [name |-> NotesName, type |-> TextPlain, size |-> MaxFileSize, data |-> <<>>,
     pdf |-> NoPdf, docx |-> NoDocx]

\* Object.keys(acceptedTypes).some(...)
isValidType(file) ==
    \/ file.type \in {ApplicationPdf, DocxType, PptxType, TextPlain}
    \/ StartsWith(file.type, ImagePrefix)

\* The file passes both validations of the loop.
PassesValidation(file) == isValidType(file) /\ ~(file.size > MaxFileSize)

\* The loop that returns at the first file that fails a validation.
NextFileOrReturn(s, from) ==
    IF from <= Len(s.files) /\ PassesValidation(s.files[from])
    THEN [s EXCEPT !.pc = "upload", !.i = from]
    ELSE [s EXCEPT !.pc = "done", !.i = Len(s.files) + 1, !.uploading = FALSE,
                   !.onUpload = IF s.uploadedFiles # <<>> THEN Append(@, s.uploadedFiles)
                                ELSE @]

\* The loop from index from on, up to the next await: the files that fail
\* a validation are skipped (continue); at the next valid file uploadFile
\* starts; after the last file onUpload gets the uploaded files, if any,
\* and finally resets uploading.
NextFile(s, from) ==
    LET valid == {k \in from..Len(s.files) : PassesValidation(s.files[k])}
    IN  IF valid # {}
        THEN [s EXCEPT !.pc = "upload",
                       !.i = CHOOSE k \in valid : \A j \in valid : k <= j]
        ELSE [s EXCEPT !.pc = "done", !.i = Len(s.files) + 1, !.uploading = FALSE,
                       !.onUpload = IF s.uploadedFiles # <<>> THEN Append(@, s.uploadedFiles)
                                    ELSE @]

\* handleFileSelect up to its first await.
handleFileSelect(files) ==
    /\ sel.pc = "idle"
    /\ IF files = <<>>
       THEN sel' = [sel EXCEPT !.pc = "done"]
       ELSE sel' = NextFile([sel EXCEPT !.files = files, !.uploading = TRUE], 1)
    /\ UNCHANGED <<docs, storage, chunkRows, inv, chatVars, conversations, turn, chunkVars>>

\* The blob upload returned: on uploadError uploadFile throws and the loop
\* goes on with the next file.
UploadBlob(ok) ==
    /\ sel.pc = "upload"
    /\ IF ok
       THEN /\ storage' = Append(storage, sel.files[sel.i])
            /\ sel' = [sel EXCEPT !.pc = "insert", !.filePath = Len(storage) + 1]
       ELSE /\ storage' = storage
            /\ sel' = NextFile(sel, sel.i + 1)
    /\ UNCHANGED <<docs, chunkRows, inv, chatVars, conversations, turn, chunkVars>>

\* The document insert returned: on dbError uploadFile throws; otherwise
\* the request to process-document is sent. request is the invocation
\* that will serve it.
InsertDocument(ok) ==
    /\ sel.pc = "insert"
    /\ IF ok
       THEN /\ docs' = Append(docs, NewDocument(sel.files[sel.i], sel.filePath))
            /\ sel' = [sel EXCEPT !.pc = "invoke",
                                  !.document = Len(docs) + 1,
                                  !.request = Cardinality({i \in Invocations :
                                                              inv[i].pc # "idle"}) + 1]
       ELSE /\ docs' = docs
            /\ sel' = NextFile(sel, sel.i + 1)
    /\ UNCHANGED <<storage, chunkRows, inv, chatVars, conversations, turn, chunkVars>>

\* The request of functions.invoke('process-document') reaches the function.
InvokeProcessDocument ==
    /\ sel.pc = "invoke"
    /\ Serve(sel.request, sel.document, sel.files[sel.i].type)

\* The file as uploadFile returns it.
UploadedFile(s) ==
    [id |-> s.document, name |-> s.files[s.i].name, type |-> s.files[s.i].type,
     size |-> s.files[s.i].size, path |-> s.filePath]

\* functions.invoke failed before the function ran: processError is logged.
InvokeProcessDocumentFailed ==
    /\ sel.pc = "invoke"
    /\ inv[sel.request].pc = "idle"
    /\ sel' = NextFile([sel EXCEPT !.uploadedFiles = Append(@, UploadedFile(sel))], sel.i + 1)
    /\ UNCHANGED <<docs, storage, chunkRows, inv, chatVars, conversations, turn, chunkVars>>

\* processError thrown instead of logged: the file is not returned.
ProcessDocumentReturnedThrows ==
    /\ sel.pc = "invoke"
    /\ inv[sel.request].pc = "done"
    /\ sel' = IF inv[sel.request].response.status = 200
              THEN NextFile([sel EXCEPT !.uploadedFiles = Append(@, UploadedFile(sel))],
                            sel.i + 1)
              ELSE NextFile(sel, sel.i + 1)
    /\ UNCHANGED <<docs, storage, chunkRows, inv, chatVars, conversations, turn, chunkVars>>

\* functions.invoke returned, with the result or (failure status) with
\* processError, which is logged: uploadFile returns the file.
ProcessDocumentReturned ==
    /\ sel.pc = "invoke"
    /\ inv[sel.request].pc = "done"
    /\ sel' = NextFile([sel EXCEPT !.uploadedFiles = Append(@, UploadedFile(sel))], sel.i + 1)
    /\ UNCHANGED <<docs, storage, chunkRows, inv, chatVars, conversations, turn, chunkVars>>

\* The files a selection is made of, and the selections: at most as many
\* files as there are invocations.
SelectableFiles == {NotesFile, PhotoFile, LimitNotesFile, ArchiveFile, HugeNotesFile}
Selections == UNION {[1..n -> SelectableFiles] : n \in 0..MaxInv}

UploadNext ==
    \/ \E files \in Selections : handleFileSelect(files)
    \/ \E ok \in BOOLEAN : UploadBlob(ok)
    \/ \E ok \in BOOLEAN : InsertDocument(ok)
    \/ InvokeProcessDocument
    \/ InvokeProcessDocumentFailed
    \/ ProcessDocumentReturned
    \/ \E i \in Invocations, m \in StorageErrors : DownloadFailed(i, m)
    \/ \E i \in Invocations : DownloadOk(i)
    \/ \E i \in Invocations : Extract(i)
    \/ \E i \in Invocations : UpdateOk(i)
    \/ \E i \in Invocations, m \in DatabaseErrors : UpdateFailed(i, m)
    \/ \E i \in Invocations, insertOk \in BOOLEAN : InsertChunks(i, insertOk)
    \/ \E i \in Invocations, updateOk \in BOOLEAN : CatchTextError(i, updateOk)

SpecUpload == Init /\ [][UploadNext]_vars

(***************************************************************************)
(* Properties of the chunker (under SpecChunk).                            *)
(***************************************************************************)
RECURSIVE Flatten(_)
Flatten(chunks) == IF chunks = <<>> THEN <<>> ELSE Head(chunks) \o Flatten(Tail(chunks))

\* The characters of a text that are not in Drop, in order.
Without(text, Drop) ==
    LET Kept(c) == c \notin Drop
    IN  SelectSeq(text, Kept)

\* The sentences and the words of oversized sentences that are by themselves
\* longer than maxSize.
OversizedUnits(text, maxSize) ==
    LET trimmed == {Trim(Sentences(text)[k]) : k \in 1..Len(Sentences(text))}
        long    == {s \in trimmed : Len(s) > maxSize}
        words   == UNION {{SplitChar(s, " ")[k] : k \in 1..Len(SplitChar(s, " "))} : s \in long}
    IN  long \cup {w \in words : Len(w) > maxSize} \cup {Trim(w) : w \in {x \in words : Len(x) > maxSize}}

\* C2: every chunk returned by createTextChunks(text, maxSize) has length
\* <= maxSize, unless it is exactly one sentence, or one word of an oversized
\* sentence, that is by itself longer than maxSize.
C2_ChunkWithinMaxSize ==
    cPc = "done" =>
        \A k \in 1..Len(cChunks) :
            Len(cChunks[k]) <= cMax \/ cChunks[k] \in OversizedUnits(cText, cMax)

\* C3 as claimed: the chunks, concatenated in order and without the
\* separators the chunker added (every "." of a chunk is such a separator,
\* a sentence holding none), are the non-whitespace characters of the input.
C3_AllNonWhitespaceKept ==
    cPc = "done" =>
        Without(Flatten(cChunks), Whitespace \cup {"."}) = Without(cText, Whitespace)

\* C3 as amended: the chunks, concatenated in order and without the
\* separators the chunker added, are the characters of the input that are
\* neither whitespace nor one of the terminators . ! ?, in their order.
C3_AllButTerminatorsKept ==
    cPc = "done" =>
        Without(Flatten(cChunks), Whitespace \cup {"."})
            = Without(cText, Whitespace \cup Terminators)

\* A run with a terminator in the text, two sentences joined in one chunk
\* and a later chunk.
C3_Witness ==
    /\ cPc = "done"
    /\ Len(cChunks) >= 2
    /\ \E k \in 1..Len(cText) : cText[k] \in Terminators
    /\ \E k \in 1..Len(cChunks) : \E j \in 1..Len(cChunks[k]) : cChunks[k][j] = "."

(***************************************************************************)
(* Properties of the ingest operation (under Spec and SpecStored).         *)
(***************************************************************************)
DocIds == 1..Len(docs)
Processed(metadata) ==
    /\ "processed" \in DOMAIN metadata
    /\ metadata.processed = TRUE
    /\ "processing_error" \notin DOMAIN metadata

\* The chunk_index values stored for document d, in insertion order.
ChunkIndices(d) ==
    LET Mine(row) == row.document_id = d
        rows == SelectSeq(chunkRows, Mine)
    IN  [k \in 1..Len(rows) |-> rows[k].metadata.chunk_index]

\* C1: in every reachable state a document's content is non-null if and
\* only if its metadata has processed = true and no processing_error.
C1_ContentIffProcessed ==
    \A d \in DocIds : (docs[d].content # Null) <=> Processed(docs[d].metadata)

\* C4: the chunk rows stored for a document carry the indices 0..n-1, each
\* once and in increasing order.
C4_ChunkIndicesContiguous ==
    \A d \in DocIds :
        LET idx == ChunkIndices(d)
        IN  \A k \in 1..Len(idx) : idx[k] = k - 1

\* C5: a step of an invocation that is at the download either continues to
\* the extraction with the blob, or (the download failed) ends the
\* invocation with the hard-failure response (status 500, body {error}) and
\* writes no document and no chunk row; the request step before it writes
\* none either, and an ended invocation takes no further step.
C5_DownloadFailureIsHard ==
    [][\A i \in Invocations :
          /\ (inv[i].pc = "idle" /\ inv'[i].pc = "download")
                => (docs' = docs /\ chunkRows' = chunkRows)
          /\ (inv[i].pc = "download" /\ inv'[i] # inv[i])
                => \/ inv'[i].pc = "extract" /\ inv'[i].fileData = inv[i].filePath
                   \/ /\ inv'[i].pc = "done"
                      /\ inv'[i].response.status = 500
                      /\ DOMAIN inv'[i].response.body = {"error"}
                      /\ docs' = docs
                      /\ chunkRows' = chunkRows
          /\ inv[i].pc = "done" => inv'[i] = inv[i]]_vars

\* An invocation has ended with the response of a failed download while a
\* document exists.
C5_Witness ==
    \E i \in Invocations :
        /\ inv[i].pc = "done"
        /\ inv[i].response.status = 500
        /\ inv[i].response.body = [error |-> "Failed to download file: Object not found"]
        /\ Len(docs) > 0

\* C6: the step that leaves the catch of the extract/update step returns
\* status 200 with {success: false, error, details}, and the document's
\* metadata then has processed = false and processing_error = details.
C6_SoftFailureIsRecorded ==
    [][\A i \in Invocations :
          (inv[i].pc = "catch" /\ inv'[i].pc = "done") =>
              /\ inv'[i].response.status = 200
              /\ DOMAIN inv'[i].response.body = {"success", "error", "details"}
              /\ inv'[i].response.body.success = FALSE
              /\ inv'[i].response.body.details = inv[i].textError
              /\ "processing_error" \in DOMAIN docs'[inv[i].documentId].metadata
              /\ docs'[inv[i].documentId].metadata.processed = FALSE
              /\ docs'[inv[i].documentId].metadata.processing_error
                     = inv'[i].response.body.details]_vars

\* C7: the step after a successful document update returns the success
\* response whether or not the bulk insert of the chunks failed, and it
\* changes no document; a failed insert stores no row.
C7_ChunkInsertFailureSwallowed ==
    [][\A i \in Invocations :
          (inv[i].pc = "insert" /\ inv'[i] # inv[i]) =>
              LET chunks == createTextChunks(inv[i].extractedText, ChunkSize)
              IN  /\ inv'[i].pc = "done"
                  /\ inv'[i].response.status = 200
                  /\ inv'[i].response.body =
                        [success |-> TRUE, documentId |-> inv[i].documentId,
                         extractedLength |-> Len(inv[i].extractedText),
                         chunksCreated |-> Len(chunks)]
                  /\ docs' = docs
                  /\ \/ chunkRows' = chunkRows
                     \/ Len(chunkRows') = Len(chunkRows) + Len(chunks)]_vars

\* An invocation reported success with chunks created while no chunk row is
\* stored for its document (the insert failed), and the document is
\* processed.
C7_Witness ==
    \E i \in Invocations :
        /\ inv[i].pc = "done"
        /\ inv[i].response.status = 200
        /\ "chunksCreated" \in DOMAIN inv[i].response.body
        /\ inv[i].response.body.chunksCreated > 0
        /\ Len(ChunkIndices(inv[i].response.body.documentId)) = 0
        /\ docs[inv[i].response.body.documentId].content # Null
        /\ Processed(docs[inv[i].response.body.documentId].metadata)

\* A text: a sequence of characters.
IsText(v) == v # Null /\ v # Undefined /\ \A k \in 1..Len(v) : Len(v[k]) = 1

\* C8: for a request that declares a MIME type, the extraction step never
\* goes to the catch and yields a text, whatever the bytes and also when the
\* PDF or DOCX parser throws; the update that follows persists exactly that
\* text as content with processed = true, and the invocation then reports
\* success.
C8_ExtractionNeverThrows ==
    [][\A i \in Invocations :
          /\ (inv[i].pc = "extract" /\ inv[i].fileType # Undefined /\ inv'[i] # inv[i])
                => /\ inv'[i].pc = "update"
                   /\ IsText(inv'[i].extractedText)
          /\ (inv[i].pc = "update" /\ inv'[i].pc = "insert")
                => /\ docs'[inv[i].documentId].content = inv[i].extractedText
                   /\ Processed(docs'[inv[i].documentId].metadata)
          /\ (inv[i].pc = "insert" /\ inv'[i] # inv[i])
                => /\ inv'[i].pc = "done"
                   /\ inv'[i].response.status = 200
                   /\ inv'[i].response.body.success = TRUE]_vars

\* The placeholder of a parser exception is stored as the content of a
\* processed document and the invocation that stored it reported success.
C8_Witness ==
    \E i \in Invocations :
        /\ inv[i].pc = "done"
        /\ inv[i].response.status = 200
        /\ "chunksCreated" \in DOMAIN inv[i].response.body
        /\ docs[inv[i].response.body.documentId].content
               \in {PdfFailedPrefix \o InvalidPdfMessage, DocxFailedPrefix \o NotZipMessage}
        /\ Processed(docs[inv[i].response.body.documentId].metadata)

\* The file types the extractor dispatch does not recognise, the missing
\* one among them.
Unrecognised(fileType) ==
    /\ fileType \notin {TextPlain, ApplicationPdf, DocxType, PptxType}
    /\ fileType = Undefined \/ ~StartsWith(fileType, ImagePrefix)

\* C9: for every unrecognised file type, the missing one included, the
\* extraction yields exactly "Unsupported file type: <type>" and does not
\* raise.
C9_UnsupportedTypeFallback ==
    [][\A i \in Invocations :
          (inv[i].pc = "extract" /\ Unrecognised(inv[i].fileType) /\ inv'[i] # inv[i]) =>
              /\ inv'[i].pc = "update"
              /\ inv'[i].extractedText = UnsupportedPrefix \o TemplateText(inv[i].fileType)]_vars

\* The three responses of the ingest operation.
IsSuccessResponse(r) ==
    /\ r.status = 200
    /\ DOMAIN r.body = {"success", "documentId", "extractedLength", "chunksCreated"}
    /\ r.body.success = TRUE
IsSoftFailureResponse(r) ==
    /\ r.status = 200
    /\ DOMAIN r.body = {"success", "error", "details"}
    /\ r.body.success = FALSE
IsHardFailureResponse(r) ==
    /\ r.status = 500
    /\ DOMAIN r.body = {"error"}

\* The positions at which an invocation awaits an external call, and the
\* assumption that each such call returns or fails: no invocation stays at
\* one of them forever.
AwaitPositions == {"download", "extract", "update", "insert", "catch"}
ExternalCallsReturn ==
    \A i \in Invocations : \A p \in AwaitPositions : []<>(inv[i].pc # p)

\* C15: when every external call returns or fails, an invocation that has
\* started eventually returns; the response of a returned invocation (the
\* CORS preflight aside) is the success, the soft-failure or the
\* hard-failure response; and a returned invocation takes no further step,
\* so it returns one response.
C15_InvocationCompletes ==
    /\ ExternalCallsReturn =>
           \A i \in Invocations : (inv[i].pc # "idle") ~> (inv[i].pc = "done")
    /\ [](\A i \in Invocations :
            (inv[i].pc = "done" /\ inv[i].response # PreflightResponse) =>
                \/ IsSuccessResponse(inv[i].response)
                \/ IsSoftFailureResponse(inv[i].response)
                \/ IsHardFailureResponse(inv[i].response))
    /\ [][\A i \in Invocations : inv[i].pc = "done" => inv'[i] = inv[i]]_vars

\* One invocation has returned the soft failure and another one the success
\* response.
C15_Witness ==
    \E i, j \in Invocations :
        /\ inv[i].pc = "done"
        /\ IsSoftFailureResponse(inv[i].response)
        /\ inv[j].pc = "done"
        /\ IsSuccessResponse(inv[j].response)

\* The processing status the stored document shows: the success update
\* leaves processed = true, the catch processed = false with the error; a
\* document no invocation has written is uploaded.
Status(doc) ==
    IF "processed" \notin DOMAIN doc.metadata THEN "uploaded"
    ELSE IF doc.metadata.processed THEN "processed"
    ELSE "processing_failed"

\* C19: once a document is processed or processing_failed, no step changes
\* that status.
C19_FinalStatusIsKept ==
    [][\A d \in DocIds :
          Status(docs[d]) \in {"processed", "processing_failed"}
              => Status(docs'[d]) = Status(docs[d])]_vars

(***************************************************************************)
(* Properties of the chat operation (under SpecChat).                      *)
(***************************************************************************)
\* The whitespace-delimited tokens of the question longer than 3 characters.
QuestionTokens(message) ==
    LET pieces == SplitRuns(message, Whitespace)
    IN  {pieces[k] : k \in {j \in 1..Len(pieces) : Len(pieces[j]) > KeywordMinLength}}

\* The processed documents of the user whose content contains one of the
\* tokens, case-insensitively.
MatchingDocuments(userId, message) ==
    {d \in 1..Len(docs) :
        /\ docs[d].user_id = userId
        /\ docs[d].content # Null
        /\ \E token \in QuestionTokens(message) :
              Includes(ToLowerCase(docs[d].content), ToLowerCase(token))}

\* C10: once the chat operation of an identified user has read the user's
\* documents and selected, its sources are exactly the user's processed
\* documents whose content contains, case-insensitively, a
\* whitespace-delimited token of the question longer than 3 characters.
C10_SelectsExactlyMatchingDocuments ==
    (chat.pc = "gemini" /\ chat.userId # "" /\ ~chat.documents.isNull) =>
        {chat.sources[k].document_id : k \in 1..Len(chat.sources)}
            = MatchingDocuments(chat.userId, chat.message)

\* The user who owns the conversation a message row belongs to.
MessageOwner(row) == conversations[row.conversation_id].user_id

\* C11: the prompt the chat operation has built contains no message of a
\* conversation owned by another user than the requester and no content of
\* a document owned by another user, whatever conversationId was requested.
C11_PromptHoldsOnlyOwnRows ==
    chat.pc = "gemini" =>
        /\ \A k \in 1..Len(messages) :
              MessageOwner(messages[k]) # chat.requester
                  => ~Includes(chat.prompt.conversationHistory, messages[k].content)
        /\ \A d \in 1..Len(docs) :
              (docs[d].user_id # chat.requester /\ docs[d].content # Null)
                  => ~Includes(chat.prompt.documentContext, docs[d].content)

\* C12: every document among the sources the chat operation has selected,
\* and every document whose content is in the prompt, has user_id equal to
\* the requester's id; when the requester is not identified, no document is
\* read, selected or put in the prompt.
C12_SourcesOwnedByRequester ==
    chat.pc = "gemini" =>
        /\ \A k \in 1..Len(chat.sources) :
              docs[chat.sources[k].document_id].user_id = chat.requester
        /\ \A d \in 1..Len(docs) :
              Includes(chat.prompt.documentContext, DocumentExcerpt(RowsOf({d})[1]))
                  => docs[d].user_id = chat.requester
        /\ chat.userId = "" =>
              /\ chat.documents = NoRows
              /\ chat.sources = <<>>
              /\ chat.prompt.documentContext = <<>>

\* The chat operation has selected sources while a processed document of
\* another user matches the question as well.
C12_Witness ==
    /\ chat.pc = "gemini"
    /\ Len(chat.sources) > 0
    /\ \E d \in 1..Len(docs) :
          /\ docs[d].user_id # chat.requester
          /\ IsRelevant(docs[d], Keywords(chat.message))

\* The min(n, HistoryLimit) most recently created messages of a
\* conversation, oldest of those first.
LastMessages(conversationId) ==
    LET Mine(row) == row.conversation_id = conversationId
        rows == SelectSeq(messages, Mine)
    IN  SubSeq(rows, IF Len(rows) > HistoryLimit THEN Len(rows) - HistoryLimit + 1 ELSE 1,
               Len(rows))

\* C20: the history text the chat operation has formed for a request with a
\* conversation id, its read having succeeded, is the text of the
\* min(n, 10) most recently created messages of the conversation, oldest
\* of those first.
C20_HistoryIsLastTen ==
    (chat.pc \in {"user", "documents", "gemini"} /\ chat.conversationId # 0
         /\ ~chat.messages.isNull) =>
        chat.conversationHistory = HistoryText(LastMessages(chat.conversationId))

(***************************************************************************)
(* Properties of a chat turn (under SpecTurn).                             *)
(***************************************************************************)
\* C13: when handleSubmit ends after it has received an assistant response,
\* the last two rows of the messages table are the user message and the
\* assistant message of the turn, in that order and in the conversation of
\* the turn.
C13_BothTurnsPersisted ==
    [][(turn.pc = "saveAssistant" /\ turn'.pc = "done") =>
          LET n == Len(messages')
          IN  /\ n >= 2
              /\ messages'[n - 1].conversation_id = turn.currentConversationId
              /\ messages'[n - 1].role = "user"
              /\ messages'[n - 1].content = turn.userInput
              /\ messages'[n].conversation_id = turn.currentConversationId
              /\ messages'[n].role = "assistant"
              /\ messages'[n].content = turn.data.response]_vars

\* C14: a failed backend call ends the chat invocation with status 500 and
\* body {error} after exactly one request to the backend; the client then
\* ends handleSubmit (the only step handleSubmit takes once that response
\* exists is its end, which shows no further message), and no step inserts
\* a message once that response exists.
C14_BackendFailureIsSurfaced ==
    [][/\ (chat.pc = "gemini" /\ chat'.pc = "done" /\ chat'.response.status # 200) =>
             /\ chat'.response.status = 500
             /\ DOMAIN chat'.response.body = {"error"}
             /\ chat'.geminiCalls = 1
       /\ (chat.pc = "done" /\ chat.response.status # 200) =>
             /\ messages' = messages
             /\ turn'.pc # turn.pc => (turn.pc = "invoke" /\ turn'.pc = "done"
                                         /\ turn'.messages = turn.messages)]_vars

\* A turn is over whose backend call failed: the user message is saved, no
\* assistant message is.
C14_Witness ==
    /\ turn.pc = "done"
    /\ chat.pc = "done"
    /\ chat.response.status = 500
    /\ chat.geminiCalls = 1
    /\ Len(messages) = Len(ShortHistory) + 1
    /\ messages[Len(messages)].role = "user"

\* No processed document of the user matches the question, by the
\* whitespace-delimited tokens or by the keywords of the selection.
NoDocumentMatches(userId, message) ==
    /\ MatchingDocuments(userId, message) = {}
    /\ \A d \in 1..Len(docs) :
          docs[d].user_id = userId => ~IsRelevant(docs[d], Keywords(message))

\* C17: in a turn submitted with no conversation selected, a message is
\* saved only under the conversation the turn created, which exists, is the
\* user's and holds no message before the turn's first save; and when no
\* document matches the question the prompt sent has no document context
\* and the response has has_document_context = false and no sources.
C17_NewConversationWithoutContext ==
    [][(turn.pc # "idle" /\ turn.conversationId = 0) =>
          /\ turn.pc = "saveUser" =>
                /\ turn.currentConversationId = Len(conversations)
                /\ conversations[turn.currentConversationId].user_id = turn.user
                /\ \A k \in 1..Len(messages) :
                      messages[k].conversation_id # turn.currentConversationId
          /\ messages' # messages =>
                /\ Len(messages') = Len(messages) + 1
                /\ messages'[Len(messages')].conversation_id = turn.currentConversationId
                /\ turn.currentConversationId \in 1..Len(conversations)
          /\ (chat.pc = "idle" /\ chat'.pc # "idle") =>
                chat'.conversationId = turn.currentConversationId
          /\ (chat.pc = "gemini" /\ chat'.pc = "done" /\ chat'.response.status = 200
                  /\ NoDocumentMatches(turn.user, chat.message)) =>
                /\ chat.prompt.documentContext = <<>>
                /\ chat.prompt.template = "general"
                /\ chat'.response.body.metadata.has_document_context = FALSE
                /\ chat'.response.body.metadata.sources = <<>>]_vars

\* A turn without a selected conversation is over: a conversation was
\* created, both messages are saved under it, and the response came without
\* document context although the user has a processed document.
C17_Witness ==
    /\ turn.pc = "done"
    /\ turn.conversationId = 0
    /\ turn.currentConversationId = Len(conversations)
    /\ chat.pc = "done"
    /\ chat.response.status = 200
    /\ chat.response.body.metadata.has_document_context = FALSE
    /\ \E d \in 1..Len(docs) : docs[d].user_id = turn.user
    /\ Len(messages) = Len(ShortHistory) + 2
    /\ messages[Len(messages) - 1].conversation_id = turn.currentConversationId
    /\ messages[Len(messages)].conversation_id = turn.currentConversationId

(***************************************************************************)
(* Properties of the upload (under SpecUpload).                            *)
(***************************************************************************)
\* C16: the ingest operation starts only for the request uploadFile sent
\* after the document insert, and for the document just created; whatever
\* way the wait for it ends (its success, soft-failure or hard-failure
\* response, or no response), uploadFile returns the file, which is
\* appended to the uploaded files; and when handleFileSelect is over,
\* onUpload has been called once with the uploaded files, if there are any.
C16_UploadSucceedsWhateverIngestReturns ==
    /\ [][/\ \A i \in Invocations :
               (inv[i].pc = "idle" /\ inv'[i].pc # "idle") =>
                   /\ sel.pc = "invoke"
                   /\ inv'[i].documentId = sel.document
                   /\ sel.document \in 1..Len(docs)
                   /\ docs[sel.document].file_name = sel.filePath
          /\ (sel.pc = "invoke" /\ sel' # sel) =>
               /\ sel'.uploadedFiles = Append(sel.uploadedFiles, UploadedFile(sel))
               /\ UploadedFile(sel).id = Len(docs)
               /\ docs' = docs]_vars
    /\ [](sel.pc = "done" =>
             sel.onUpload = IF sel.uploadedFiles = <<>> THEN <<>> ELSE <<sel.uploadedFiles>>)

\* A selection of two files is over and both were handed to onUpload, the
\* ingest of one having returned the hard failure and the ingest of the
\* other one the soft failure.
C16_Witness ==
    /\ sel.pc = "done"
    /\ Len(sel.onUpload) = 1
    /\ Len(sel.onUpload[1]) = 2
    /\ \E i, j \in Invocations :
          /\ inv[i].pc = "done" /\ IsHardFailureResponse(inv[i].response)
          /\ inv[j].pc = "done" /\ IsSoftFailureResponse(inv[j].response)

\* The type is none of the accepted ones, or the size is over 10MB.
Rejected(file) ==
    \/ ~(\/ file.type \in {ApplicationPdf, DocxType, PptxType, TextPlain}
          \/ StartsWith(file.type, ImagePrefix))
    \/ file.size > MaxFileSize

\* C18: a blob upload, a document insert or an ingest request happens only
\* while uploadFile runs for a file that is not rejected; no rejected file
\* is among the uploaded files or in the list given to onUpload; and the
\* loop passes over rejected files only: it goes on to the next file that
\* is not rejected and ends when there is none.
C18_RejectedFileIsNotPersisted ==
    /\ [][/\ (storage' # storage \/ docs' # docs
                \/ \E i \in Invocations : inv[i].pc = "idle" /\ inv'[i].pc # "idle") =>
               /\ sel.pc \in {"upload", "insert", "invoke"}
               /\ ~Rejected(sel.files[sel.i])
          /\ sel'.i # sel.i =>
               /\ \A k \in (sel.i + 1)..(sel'.i - 1) :
                      k <= Len(sel'.files) => Rejected(sel'.files[k])
               /\ sel'.pc = "done" <=> sel'.i > Len(sel'.files)
               /\ sel'.pc = "upload" <=> sel'.i <= Len(sel'.files)]_vars
    /\ [](/\ sel.pc # "idle" =>
              \A k \in 1..Len(sel.uploadedFiles) :
                 \E j \in 1..Len(sel.files) :
                    /\ ~Rejected(sel.files[j])
                    /\ sel.uploadedFiles[k].name = sel.files[j].name
                    /\ sel.uploadedFiles[k].type = sel.files[j].type
                    /\ sel.uploadedFiles[k].size = sel.files[j].size
          /\ \A c \in 1..Len(sel.onUpload) : sel.onUpload[c] = sel.uploadedFiles
          /\ Len(storage) <= Cardinality({j \in 1..Len(sel.files) : ~Rejected(sel.files[j])}))

\* A selection of a rejected file followed by a valid one is over: the
\* valid one is stored and was handed to onUpload, the rejected one left no
\* blob and no document.
C18_Witness ==
    /\ sel.pc = "done"
    /\ Len(sel.files) = 2
    /\ Rejected(sel.files[1])
    /\ ~Rejected(sel.files[2])
    /\ Len(storage) = 1
    /\ Len(docs) = 1
    /\ Len(sel.onUpload) = 1
    /\ Len(sel.onUpload[1]) = 1
    /\ sel.onUpload[1][1].name = sel.files[2].name

(***************************************************************************)
(* Properties of the documents read of the chat operation (under SpecChat).*)
(***************************************************************************)
\* The documents of the stores of ChatInit were last updated in the order of
\* their ids: the ids of the min(n, DocumentScanLimit) most recently updated
\* documents of a user with content, the most recently updated first.
MostRecentlyUpdated(userId) ==
    LET match  == {d \in 1..Len(docs) : docs[d].user_id = userId /\ docs[d].content # Null}
        sorted == SortedSeq(match)
        n      == Len(sorted)
        kept   == IF n < DocumentScanLimit THEN n ELSE DocumentScanLimit
    IN  [k \in 1..kept |-> sorted[n + 1 - k]]

\* C21: the rows a successful documents read has handed to the relevance
\* selection are the min(n, 5) most recently updated documents of the
\* requesting user with non-null content, the most recently updated first.
C21_ScansMostRecentlyUpdated ==
    (chat.pc = "gemini" /\ chat.userId # "" /\ ~chat.documents.isNull) =>
        [k \in 1..Len(chat.documents.rows) |-> chat.documents.rows[k].id]
            = MostRecentlyUpdated(chat.userId)

(***************************************************************************)
(* Properties of concurrent invocations for different documents (under     *)
(* SpecConcurrent).                                                        *)
(***************************************************************************)
\* The chunk rows of a document, in the order of their insertion.
ChunkRowsOf(rows, d) ==
    LET Mine(row) == row.document_id = d
    IN  SelectSeq(rows, Mine)

\* What the invocation for document d leaves when it runs alone and answers
\* with response r: content and metadata of the row and the chunk rows.
AloneResults(d, r) ==
    LET uploaded == NewDocument(storage[d], d)
        untouched == [content |-> uploaded.content, metadata |-> uploaded.metadata,
                      chunks |-> <<>>]
        texts == {ExtractText(ft, uploaded.title, storage[d]).text :
                     ft \in {ft \in {uploaded.file_type, Undefined} :
                                ExtractText(ft, uploaded.title, storage[d]).ok}}
    IN  IF IsSuccessResponse(r)
        THEN UNION {{[content |-> text, metadata |-> ProcessedMetadata(text, Now),
                      chunks |-> chunks] :
                        chunks \in {<<>>, ChunksData(d, createTextChunks(text, ChunkSize))}} :
                    text \in {t \in texts : Len(t) = r.body.extractedLength}}
        ELSE IF IsSoftFailureResponse(r)
        THEN {untouched,
              [untouched EXCEPT !.metadata = FailedMetadata(r.body.details, Now)]}
        ELSE {untouched}

\* C22: a step of the invocation for one document leaves the rows and the
\* chunk rows of every other document as they were, and when an invocation
\* has returned, the content, the metadata and the chunk rows of its
\* document are those the invocation leaves when it runs alone, whatever
\* the other invocations have done in between.
C22_ConcurrentIngestIsIsolated ==
    /\ [][\A i \in Invocations :
             inv'[i] # inv[i] =>
                 \A d \in 1..Len(docs) :
                     d # i => /\ docs'[d] = docs[d]
                              /\ ChunkRowsOf(chunkRows', d) = ChunkRowsOf(chunkRows, d)]_vars
    /\ [](\A i \in Invocations :
             inv[i].pc = "done" =>
                 [content |-> docs[i].content, metadata |-> docs[i].metadata,
                  chunks |-> ChunkRowsOf(chunkRows, i)] \in AloneResults(i, inv[i].response))

\* Two invocations have succeeded and the second one, which started later,
\* inserted its chunk rows first.
C22_Witness ==
    /\ \A i \in {1, 2} : inv[i].pc = "done" /\ IsSuccessResponse(inv[i].response)
    /\ Len(chunkRows) >= 2
    /\ chunkRows[1].document_id = 2
    /\ chunkRows[Len(chunkRows)].document_id = 1

(***************************************************************************)
(* The order of the steps of one invocation (under Spec).                  *)
(***************************************************************************)
\* C23: an invocation comes to the extraction only from the download, with
\* the blob; to the document update only from the extraction, with the
\* text the extractor returned for that blob; to the chunking and the chunk
\* insert only from the document update, in the step in which that update
\* wrote the text; the content of a document is written only by an
\* invocation at its update and chunk rows are added only by an invocation
\* at its insert.
C23_StepsInOrder ==
    [][/\ \A i \in Invocations :
             /\ (inv'[i].pc = "download" /\ inv[i].pc # "download") => inv[i].pc = "idle"
             /\ (inv'[i].pc = "extract" /\ inv[i].pc # "extract") =>
                    /\ inv[i].pc = "download"
                    /\ inv'[i].fileData # NoBlob
             /\ (inv'[i].pc = "update" /\ inv[i].pc # "update") =>
                    /\ inv[i].pc = "extract"
                    /\ inv[i].fileData # NoBlob
                    /\ LET r == ExtractText(inv[i].fileType, inv[i].fileName,
                                            storage[inv[i].fileData])
                       IN  r.ok /\ inv'[i].extractedText = r.text
             /\ (inv'[i].pc = "insert" /\ inv[i].pc # "insert") =>
                    /\ inv[i].pc = "update"
                    /\ inv'[i].extractedText = inv[i].extractedText
                    /\ docs'[inv[i].documentId].content = inv[i].extractedText
                    /\ docs'[inv[i].documentId].metadata
                           = ProcessedMetadata(inv[i].extractedText, Now)
       /\ \A d \in 1..Len(docs) :
             docs'[d].content # docs[d].content =>
                 \E i \in Invocations :
                    inv[i].pc = "update" /\ inv[i].documentId = d /\ inv'[i].pc = "insert"
       /\ chunkRows' # chunkRows =>
             \E i \in Invocations :
                /\ inv[i].pc = "insert" /\ inv'[i].pc = "done"
                /\ chunkRows' = chunkRows \o
                       ChunksData(inv[i].documentId,
                                  createTextChunks(inv[i].extractedText, ChunkSize))]_vars

\* An invocation has downloaded, extracted and updated and is about to
\* chunk and insert; no chunk row has been written yet.
C23_Witness ==
    \E i \in Invocations :
        /\ inv[i].pc = "insert"
        /\ inv[i].fileData # NoBlob
        /\ docs[inv[i].documentId].content = inv[i].extractedText
        /\ chunkRows = <<>>

(***************************************************************************)
(* The word count of a processed document (under SpecStored).              *)
(***************************************************************************)
\* The number of whitespace-delimited tokens of a text: of its maximal runs
\* of characters that are not whitespace.
TokenCount(text) ==
    Cardinality({k \in 1..Len(text) :
                    text[k] \notin Whitespace /\ (k = 1 \/ text[k-1] \in Whitespace)})

\* C24: the word_count of a document that a successful ingest has marked
\* processed is the number of whitespace-delimited tokens of its content,
\* the text the extractor returned.
C24_WordCountIsTokenCount ==
    \A d \in DocIds :
        Processed(docs[d].metadata) =>
            docs[d].metadata.word_count = TokenCount(docs[d].content)

(***************************************************************************)
(* The excerpts of the prompt (under SpecChat).                            *)
(***************************************************************************)
\* The first min(n, length) characters of a text.
FirstCharacters(text, n) ==
    [k \in 1..(IF Len(text) < n THEN Len(text) ELSE n) |-> text[k]]

\* The document context made of the first 1000 characters of the documents
\* the sources name, in the order of the sources.
ContextOfFirstCharacters(sources) ==
    Join([k \in 1..Len(sources) |->
             DocumentLabel \o docs[sources[k].document_id].title \o ContentLabel
                 \o FirstCharacters(docs[sources[k].document_id].content, ExcerptLength)
                 \o Ellipsis],
         DocumentSeparator)

\* C25: the document context of the prompt holds, for every document
\* selected as relevant, exactly the first min(1000, length) characters of
\* its content between the content label and the ellipsis, and nothing
\* else of the content.
C25_ExcerptIsFirstThousand ==
    chat.pc = "gemini" =>
        /\ chat.documentContext = ContextOfFirstCharacters(chat.sources)
        /\ chat.prompt.documentContext = chat.documentContext

\* A document longer than 1000 characters has been selected as relevant.
C25_Witness ==
    /\ chat.pc = "gemini"
    /\ \E k \in 1..Len(chat.sources) :
          Len(docs[chat.sources[k].document_id].content) > ExcerptLength

(***************************************************************************)
(* The message list of a turn that created its conversation (under         *)
(* SpecTurn).                                                              *)
(***************************************************************************)
\* The turn has ended after it received the assistant's response and both
\* of its messages were saved in the conversation it created.
TurnSucceeded ==
    /\ turn.pc = "done"
    /\ turn.data # NullBody
    /\ FetchedMessages(turn.currentConversationId)
           = <<ShownMessage("user", turn.userInput),
               ShownMessage("assistant", turn.data.response)>>

\* C26: when a turn that started with no conversation selected has
\* completed successfully, the displayed messages end with the user message
\* of the turn followed by the assistant's reply, whatever the fetchMessages
\* started by the change of the conversation id has done in between or
\* does afterwards.
C26_TurnIsDisplayed ==
    (TurnSucceeded /\ turn.conversationId = 0) =>
        /\ Len(turn.messages) >= 2
        /\ turn.messages[Len(turn.messages) - 1] = ShownMessage("user", turn.userInput)
        /\ turn.messages[Len(turn.messages)] = ShownMessage("assistant", turn.data.response)

(***************************************************************************)
(* The frame of the success update (under SpecConcurrent).                 *)
(***************************************************************************)
\* C27: the step in which the document update of an invocation succeeds
\* writes the content and the metadata of the document whose id is
\* documentId and nothing else: the metadata afterwards has exactly the
\* keys processed, processed_at and word_count, so original_name and
\* storage_path, which the upload wrote, are gone; the other fields of the
\* document, the other documents, the blobs and the chunk rows are as
\* before; the rest of the invocation, up to its success response, writes
\* no document.
C27_SuccessUpdateFrame ==
    [][\A i \in Invocations :
        /\ (inv[i].pc = "insert" /\ inv'[i].pc = "done") => docs' = docs
        /\ (inv[i].pc = "update" /\ inv'[i].pc = "insert") =>
              LET d == inv[i].documentId
              IN  /\ docs'[d].content = inv[i].extractedText
                  /\ DOMAIN docs'[d].metadata = {"processed", "processed_at", "word_count"}
                  /\ docs'[d].metadata.processed = TRUE
                  /\ DOMAIN docs'[d] = DOMAIN docs[d]
                  /\ \A f \in DOMAIN docs[d] \ {"content", "metadata"} :
                        docs'[d][f] = docs[d][f]
                  /\ Len(docs') = Len(docs)
                  /\ \A e \in 1..Len(docs) : e # d => docs'[e] = docs[e]
                  /\ storage' = storage
                  /\ chunkRows' = chunkRows]_vars

\* A document has been processed and has lost the keys of the upload while
\* another document still has them.
C27_Witness ==
    \E d, e \in 1..Len(docs) :
        /\ Processed(docs[d].metadata)
        /\ docs[d].content # Null
        /\ "original_name" \notin DOMAIN docs[d].metadata
        /\ "storage_path" \notin DOMAIN docs[d].metadata
        /\ docs[e] = NewDocument(storage[e], e)
        /\ docs[e].metadata.original_name = docs[e].title

(***************************************************************************)
(* The counts of the success response (under Spec).                        *)
(***************************************************************************)
\* C28: the step that ends an invocation after its chunking answers with
\* the success response, whose chunksCreated is the number of chunks the
\* chunker returns for the stored content and whose extractedLength is the
\* length of that content, whether the step has stored those chunks as rows
\* of the document or, the insert having failed, none.
C28_SuccessResponseCounts ==
    [][\A i \in Invocations :
          (inv[i].pc = "insert" /\ inv'[i].pc = "done") =>
              LET d == inv[i].documentId
                  r == inv'[i].response
                  chunks == createTextChunks(docs[d].content, ChunkSize)
              IN  /\ docs[d].content = inv[i].extractedText
                  /\ IsSuccessResponse(r)
                  /\ r.body.documentId = d
                  /\ r.body.extractedLength = Len(docs[d].content)
                  /\ r.body.chunksCreated = Len(chunks)
                  /\ \/ chunkRows' = chunkRows \o ChunksData(d, chunks)
                     \/ chunkRows' = chunkRows]_vars

\* An invocation answered with a chunksCreated above zero although its
\* document has fewer chunk rows than that.
C28_Witness ==
    \E i \in Invocations :
        /\ inv[i].pc = "done"
        /\ IsSuccessResponse(inv[i].response)
        /\ inv[i].response.body.chunksCreated > 0
        /\ Len(ChunkRowsOf(chunkRows, inv[i].response.body.documentId))
               < inv[i].response.body.chunksCreated

(***************************************************************************)
(* isLoading over a call of handleSubmit (under SpecTurn).                 *)
(***************************************************************************)
\* The positions at which handleSubmit and the chat function it invokes
\* await an external call, and the assumption that each such call returns
\* or fails: neither stays at one of them forever.
TurnAwaitPositions == {"create", "saveUser", "invoke", "saveAssistant"}
ChatAwaitPositions == {"history", "user", "documents", "gemini"}
TurnCallsReturn ==
    /\ \A p \in TurnAwaitPositions : []<>(turn.pc # p)
    /\ \A p \in ChatAwaitPositions : []<>(chat.pc # p)

\* The call is one that returns before the try: blank input and no
\* attached file, or no signed-in user.
ReturnsAtOnce(t) ==
    \/ Trim(t.input) = <<>> /\ t.uploadedFiles = <<>>
    \/ t.user = ""

\* C29: isLoading is true exactly while handleSubmit is between its
\* setIsLoading(true) and its end, and, every awaited call returning, a
\* call that set it sets it back to false, however the call ends; a call
\* with blank input and no attached files, or without a signed-in user,
\* ends at once, leaves isLoading false and writes nothing, and nothing is
\* written once a call has ended.
C29_LoadingIsReset ==
    /\ TurnCallsReturn => (turn.isLoading ~> ~turn.isLoading)
    /\ [](turn.isLoading <=> turn.pc \in TurnAwaitPositions)
    /\ [][/\ (turn.pc = "idle" /\ turn'.pc # "idle" /\ ReturnsAtOnce(turn)) =>
                /\ turn'.pc = "done"
                /\ ~turn'.isLoading
                /\ messages' = messages
                /\ conversations' = conversations
                /\ chat' = chat
          /\ (turn.pc = "idle" /\ turn'.pc # "idle" /\ ~ReturnsAtOnce(turn)) =>
                turn'.isLoading
          /\ turn.pc = "done" =>
                /\ turn'.pc = "done"
                /\ ~turn'.isLoading
                /\ messages' = messages
                /\ conversations' = conversations]_vars

\* A call that set isLoading has ended because the conversation could not
\* be created, and isLoading is false again.
C29_Witness ==
    /\ turn.pc = "done"
    /\ ~turn.isLoading
    /\ ~ReturnsAtOnce(turn)
    /\ turn.conversationId = 0
    /\ turn.currentConversationId = 0

(***************************************************************************)
(* The shape of the chunks (under SpecChunk).                              *)
(***************************************************************************)
\* C30: no chunk createTextChunks returns is the empty string and none
\* starts or ends with whitespace, and a text made only of whitespace and
\* of the sentence terminators has no chunk.
C30_ChunksAreTrimmedAndNonEmpty ==
    cPc = "done" =>
        /\ \A k \in 1..Len(cChunks) :
              /\ cChunks[k] # <<>>
              /\ cChunks[k][1] \notin Whitespace
              /\ cChunks[k][Len(cChunks[k])] \notin Whitespace
        /\ (\A j \in 1..Len(cText) : cText[j] \in Whitespace \cup Terminators) =>
              cChunks = <<>>

====
